---------------------------- MODULE Spec2Model ----------------------------
(***************************************************************************)
(* A model of the AlpenBlumen enrichment scripts:                          *)
(*   scripts/generate_alpen_blumen_data.py (and its twin flower_wiki.py),  *)
(*   scripts/flower_image.py, scripts/hartinger_images.py,                 *)
(*   scripts/hartinger_download_images.py.                                 *)
(*                                                                         *)
(* A Python string is modelled as a sequence of tokens, each a character   *)
(* or an opaque chunk of characters, so that the string functions of the   *)
(* scripts (strip, split, replace, regular expressions) are computed token *)
(* by token.  Remote services are modelled by the responses they give.     *)
(***************************************************************************)
EXTENDS Integers, Sequences, FiniteSets, TLC

VARIABLES
    pc,           \* position of the running function or script
    input,        \* argument(s) of the function under call
    output,       \* what the call returned or raised
    \* hartinger_images.gather_latin_names
    category,     \* index of the category of the current iteration
    files,        \* the file titles listed for it
    metadata,     \* fetch_metadata(files): title -> page
    fileIdx,      \* index in files of the next title
    entries,      \* the PlateEntry list
    seen_titles,
    \* flower_image.resolve_image
    repo,         \* Wikimedia Commons: its answer to each request
    queue,        \* the titles the current loop has yet to look up
    requests,     \* the requests sent so far, in order
    \* generate_alpen_blumen_data
    wikidata,     \* Wikidata and Wikipedia: their answer to each request
    walker,       \* walk_up_to_rank: qid, target rank, iterations done
    calls,        \* the requests sent so far, in order
    mode,         \* "call", "single" (run_single) or "batch" (run_batch)
    names,        \* the Latin names still to resolve
    frame,        \* build_payload: latin, qid, entity, genus, family, ...
    results,      \* run_batch: the payloads so far
    failures,     \* run_batch: the names that failed
    target_file,  \* the JSON array in the output file, <<>> without one
    \* hartinger_download_images.main (entries and metadata as above)
    args,         \* the parsed command line
    output_dir,   \* the names of the files that exist in args.output_dir
    saved,
    skipped

plateVars == <<category, files, metadata, fileIdx, entries, seen_titles>>

imageVars == <<repo, queue, requests>>

walkVars == <<wikidata, walker, calls>>

callerVars == <<mode, names, results, failures, target_file>>

batchVars == <<frame, callerVars>>

taxonVars == <<walkVars, batchVars>>

downloadVars == <<args, output_dir, saved, skipped>>

vars == <<pc, input, output, plateVars, imageVars, taxonVars, downloadVars>>

(***************************************************************************)
(* Python values                                                           *)
(***************************************************************************)
None == <<"None">>

\* Python truthiness of an Optional[str]
Falsy(x) == x = None \/ x = <<>>

Return(v) == [kind |-> "return", value |-> v]

Raise(e) == [kind |-> "raise", value |-> e]

RequestException == <<"RequestException">>

SystemExit == <<"SystemExit">>

KeyError == <<"KeyError">>

NotCalled == [kind |-> "pending", value |-> None]

\* walk_up_to_rank is not running.
WalkIdle ==
    /\ wikidata = <<>>
    /\ walker = <<>>
    /\ calls = <<>>

\* Neither run_single nor run_batch is running.
BatchIdle ==
    /\ mode = "call"
    /\ names = <<>>
    /\ frame = <<>>
    /\ results = <<>>
    /\ failures = 0
    /\ target_file = <<>>

TaxonIdle == WalkIdle /\ BatchIdle

\* resolve_image is not running.
ImageIdle ==
    /\ repo = <<>>
    /\ queue = <<>>
    /\ requests = <<>>

\* hartinger_download_images.main is not running.
DownloadIdle ==
    /\ args = <<>>
    /\ output_dir = {}
    /\ saved = 0
    /\ skipped = 0

\* gather_latin_names is not running.
PlateIdle ==
    /\ category = 0
    /\ files = <<>>
    /\ metadata = <<>>
    /\ fileIdx = 0
    /\ entries = <<>>
    /\ seen_titles = {}

(***************************************************************************)
(* Wikidata: sparql_find_item_by_taxon_name                                *)
(***************************************************************************)
RANK_SPECIES == <<"Q7432">>

RANK_SUBSPECIES == <<"Q68947">>

RANK_GENUS == <<"Q34740">>

RANK_FAMILY == <<"Q35409">>

\* An entity URI as the SPARQL endpoint returns it.
EntityUri(q) == <<"http:", "/", "/", "www.wikidata.org", "/", "entity", "/">> \o q

\* uri.rsplit("/", 1)[-1]: what follows the last "/" (all of it without one)
RECURSIVE LastSegment(_)
LastSegment(uri) ==
    IF uri = <<>> THEN <<>>
    ELSE IF uri[Len(uri)] = "/" THEN <<>>
    ELSE LastSegment(SubSeq(uri, 1, Len(uri) - 1)) \o <<uri[Len(uri)]>>

rank_priority_flat(rank_uri) ==
    IF Falsy(rank_uri) THEN 5
    ELSE LET qid == LastSegment(rank_uri)
         IN  IF qid = RANK_SPECIES THEN 0
             ELSE IF qid = RANK_SUBSPECIES THEN 1
             ELSE 5

rank_priority(rank_uri) ==
    IF Falsy(rank_uri) THEN 10
    ELSE LET qid == LastSegment(rank_uri)
         IN  IF qid = RANK_SPECIES THEN 0
             ELSE IF qid = RANK_SUBSPECIES THEN 1
             ELSE 5

\* b.get("rank", {}).get("value")
RowRank(b) == b.rank

\* list.sort(key=...) is stable: insert each row after every row whose key
\* is not greater.
RECURSIVE InsertByRank(_, _)
InsertByRank(sorted, b) ==
    IF sorted = <<>> THEN <<b>>
    ELSE IF rank_priority(RowRank(Head(sorted))) <= rank_priority(RowRank(b))
         THEN <<Head(sorted)>> \o InsertByRank(Tail(sorted), b)
         ELSE <<b>> \o sorted

RECURSIVE SortByRank(_)
SortByRank(bindings) ==
    IF bindings = <<>> THEN <<>>
    ELSE InsertByRank(SortByRank(SubSeq(bindings, 1, Len(bindings) - 1)),
                      bindings[Len(bindings)])

\* The response of the query endpoint: an HTTP error (raise_for_status) or
\* the bindings.
sparql_find_item_by_taxon_name(response) ==
    IF ~response.ok THEN Raise(RequestException)
    ELSE IF response.bindings = <<>> THEN Return(None)
    ELSE Return(LastSegment(SortByRank(response.bindings)[1].item))

(***************************************************************************)
(* Bounds of the candidate-selection check                                 *)
(***************************************************************************)
MaxRows == 3

RankUris == {EntityUri(RANK_SPECIES), EntityUri(RANK_SUBSPECIES),
             EntityUri(RANK_GENUS), None}

\* Row i of a result names entity Q<i>.
Digits == <<"1", "2", "3", "4", "5", "6", "7", "8", "9", "10", "11", "12",
           "13", "14", "15">>

Qid(i) == <<"Q", Digits[i]>>

RowItem(i) == EntityUri(Qid(i))

Bindings ==
    UNION { { [i \in 1..n |-> [item |-> RowItem(i), rank |-> rk[i]]] :
              rk \in [1..n -> RankUris] } : n \in 0..MaxRows }

SparqlResponses ==
    { [ok |-> TRUE, bindings |-> b] : b \in Bindings }
    \cup { [ok |-> FALSE, bindings |-> <<>>] }

InitFind ==
    /\ PlateIdle
    /\ DownloadIdle
    /\ ImageIdle
    /\ TaxonIdle
    /\ pc = "find"
    /\ input \in SparqlResponses
    /\ output = NotCalled

CallFind ==
    /\ pc = "find"
    /\ output' = sparql_find_item_by_taxon_name(input)
    /\ pc' = "done"
    /\ UNCHANGED <<input, plateVars, downloadVars, imageVars, taxonVars>>

NextFind == CallFind

SpecFind == InitFind /\ [][NextFind]_vars

FindReturned == pc = "done" /\ input.ok /\ input.bindings # <<>>

\* The first row, in result order, that no row outranks under Tier.
FirstOfBest(rows, Tier(_)) ==
    CHOOSE i \in 1..Len(rows) :
        /\ \A j \in 1..Len(rows) : Tier(rows[i].rank) <= Tier(rows[j].rank)
        /\ \A j \in 1..(i - 1) : Tier(rows[j].rank) > Tier(rows[i].rank)

\* species, then subspecies, then every other or missing rank alike
ThreeTiers(rank) ==
    IF rank = EntityUri(RANK_SPECIES) THEN 0
    ELSE IF rank = EntityUri(RANK_SUBSPECIES) THEN 1
    ELSE 2

\* species, then subspecies, then any other rank, then a missing rank
FourTiers(rank) ==
    IF rank = EntityUri(RANK_SPECIES) THEN 0
    ELSE IF rank = EntityUri(RANK_SUBSPECIES) THEN 1
    ELSE IF rank # None THEN 2
    ELSE 3

\* C2 as claimed: the selected entity is that of the first row among the
\* rows of best rank, where species outranks subspecies and subspecies
\* outranks every other or missing rank (other and missing ranks tie).
C2_FirstOfBestRank_AsClaimed ==
    FindReturned =>
        output = Return(Qid(FirstOfBest(input.bindings, ThreeTiers)))

\* C2 amended: the selected entity is that of the first row among the rows
\* of best rank, where species outranks subspecies, subspecies outranks
\* every other rank, and every rank that is present outranks a missing one.
C2_FirstOfBestRank ==
    FindReturned =>
        output = Return(Qid(FirstOfBest(input.bindings, FourTiers)))

\* The rows [(Q1, no rank), (Q2, species), (Q3, subspecies)] select Q2.
C2_Witness ==
    /\ FindReturned
    /\ input.bindings =
         << [item |-> RowItem(1), rank |-> None],
            [item |-> RowItem(2), rank |-> EntityUri(RANK_SPECIES)],
            [item |-> RowItem(3), rank |-> EntityUri(RANK_SUBSPECIES)] >>
    /\ output = Return(Qid(2))

(***************************************************************************)
(* Text: first_sentences                                                   *)
(***************************************************************************)
\* \s of the pattern, and what str.strip() removes
IsSpace(c) == c \in {" ", "\t", "\n", "\r", "\f"}

\* [.!?]
IsTerminator(c) == c \in {".", "!", "?"}

\* [A-ZÄÖÜÀÂÉÈÊÎÔÙÇ]
IsSentenceStart(c) ==
    c \in {"A", "B", "C", "D", "E", "F", "G", "H", "I", "J", "K", "L", "M",
           "N", "O", "P", "Q", "R", "S", "T", "U", "V", "W", "X", "Y", "Z",
           "Ä", "Ö", "Ü", "À", "Â", "É", "È", "Ê", "Î", "Ô", "Ù", "Ç"}

RECURSIVE LStrip(_)
LStrip(t) ==
    IF t # <<>> /\ IsSpace(Head(t)) THEN LStrip(Tail(t)) ELSE t

RECURSIVE RStrip(_)
RStrip(t) ==
    IF t # <<>> /\ IsSpace(t[Len(t)])
    THEN RStrip(SubSeq(t, 1, Len(t) - 1))
    ELSE t

\* str.strip()
Strip(t) == LStrip(RStrip(t))

\* The last index of the run of whitespace that holds index i.
RECURSIVE SpaceRunEnd(_, _)
SpaceRunEnd(t, i) ==
    IF i < Len(t) /\ IsSpace(t[i + 1]) THEN SpaceRunEnd(t, i + 1) ELSE i

\* (?<=[.!?])\s+(?=[A-Z...]) matches at i
SentenceBreakAt(t, i) ==
    /\ i > 1
    /\ IsTerminator(t[i - 1])
    /\ IsSpace(t[i])
    /\ SpaceRunEnd(t, i) < Len(t)
    /\ IsSentenceStart(t[SpaceRunEnd(t, i) + 1])

\* The mutant's pattern: (?<=[.!?])\s+ without the lookahead
AnyBreakAt(t, i) ==
    /\ i > 1
    /\ IsTerminator(t[i - 1])
    /\ IsSpace(t[i])
    /\ SpaceRunEnd(t, i) < Len(t)

\* The mutant's split
RECURSIVE SplitAnyFrom(_, _, _)
SplitAnyFrom(t, start, i) ==
    IF i > Len(t) THEN <<SubSeq(t, start, Len(t))>>
    ELSE IF AnyBreakAt(t, i)
         THEN <<SubSeq(t, start, i - 1)>>
              \o SplitAnyFrom(t, SpaceRunEnd(t, i) + 1, SpaceRunEnd(t, i) + 1)
         ELSE SplitAnyFrom(t, start, i + 1)

SplitAnySentences(t) == SplitAnyFrom(t, 1, 1)

\* re.split scans left to right; the pieces lie between the matches.
RECURSIVE SplitFrom(_, _, _)
SplitFrom(t, start, i) ==
    IF i > Len(t) THEN <<SubSeq(t, start, Len(t))>>
    ELSE IF SentenceBreakAt(t, i)
         THEN <<SubSeq(t, start, i - 1)>>
              \o SplitFrom(t, SpaceRunEnd(t, i) + 1, SpaceRunEnd(t, i) + 1)
         ELSE SplitFrom(t, start, i + 1)

\* re.split(r'(?<=[.!?])\s+(?=[A-Z...])', t)
SplitSentences(t) == SplitFrom(t, 1, 1)

\* sep.join(pieces)
RECURSIVE Join(_, _)
Join(pieces, sep) ==
    IF pieces = <<>> THEN <<>>
    ELSE IF Len(pieces) = 1 THEN pieces[1]
    ELSE pieces[1] \o sep \o Join(Tail(pieces), sep)

\* s[:n]
SliceTo(s, n) ==
    IF n >= 0 THEN SubSeq(s, 1, IF n < Len(s) THEN n ELSE Len(s))
    ELSE SubSeq(s, 1, Len(s) + n)

\* The mutant: the slice sentences[:n + 1]
first_sentences_one_more(text, n) ==
    IF text = <<>> THEN text
    ELSE Strip(Join(SliceTo(SplitSentences(Strip(text)), n + 1), <<" ">>))

first_sentences(text, n) ==
    IF text = <<>> THEN text
    ELSE Strip(Join(SliceTo(SplitSentences(Strip(text)), n), <<" ">>))

\* The default of n
DefaultSentences == 2

(***************************************************************************)
(* Bounds of the text check                                                *)
(***************************************************************************)
MaxTextLen == 7

TextAlphabet == {"A", "b", ".", " "}

TextsUpTo(alphabet, n) == UNION { [1..k -> alphabet] : k \in 0..n }

ExampleText == <<"A", ".", " ", "B", ".", " ", "C", ".">>

SummaryTexts ==
    TextsUpTo(TextAlphabet, MaxTextLen)
    \cup { ExampleText,
           <<"A", "b", "?", "\n", "\n", "É", "!", "\t", "b", ".", " ", "A">>,
           <<" ", "A", ".", " ", " ", "A", ".", " ", "A", ".", " ">> }

InitText ==
    /\ PlateIdle
    /\ DownloadIdle
    /\ ImageIdle
    /\ TaxonIdle
    /\ pc = "first_sentences"
    /\ input \in [text : SummaryTexts, n : 1..DefaultSentences]
    /\ output = NotCalled

CallFirstSentences ==
    /\ pc = "first_sentences"
    /\ output' = Return(first_sentences(input.text, input.n))
    /\ pc' = "done"
    /\ UNCHANGED <<input, plateVars, downloadVars, imageVars, taxonVars>>

NextText == CallFirstSentences

SpecText == InitText /\ [][NextText]_vars

\* The starts of the sentence boundaries of t: whitespace that follows '.',
\* '!' or '?' and runs up to an uppercase letter.
Boundaries(t) ==
    { i \in 2..Len(t) :
        /\ IsTerminator(t[i - 1])
        /\ IsSpace(t[i])
        /\ \E j \in i..(Len(t) - 1) :
              /\ \A k \in i..j : IsSpace(t[k])
              /\ IsSentenceStart(t[j + 1]) }

\* t without its leading and trailing whitespace
Trimmed(t) ==
    LET solid == { i \in 1..Len(t) : ~IsSpace(t[i]) }
    IN  IF solid = {} THEN <<>>
        ELSE SubSeq(t, CHOOSE i \in solid : \A j \in solid : i <= j,
                       CHOOSE i \in solid : \A j \in solid : j <= i)

\* The first n sentences of t, each boundary between them a single space:
\* the characters before the n-th boundary, a boundary's whitespace kept as
\* one " ".
FirstSentencesOf(t, n) ==
    LET s == Trimmed(t)
        B == Boundaries(s)
        cut == IF Cardinality(B) >= n
               THEN CHOOSE i \in B : Cardinality({ j \in B : j <= i }) = n
               ELSE Len(s) + 1
        InBreak(k) == \E i \in B : i < k /\ \A m \in i..k : IsSpace(s[m])
        kept == { k \in 1..Len(s) : k < cut /\ ~InBreak(k) }
        Nth(m) == CHOOSE k \in kept : Cardinality({ j \in kept : j <= k }) = m
    IN  [ m \in 1..Cardinality(kept) |->
            IF Nth(m) \in B THEN " " ELSE s[Nth(m)] ]

\* C6: first_sentences returns the first n sentences of the text rejoined
\* with single spaces, and the result holds at most n sentences.
C6_FirstSentences ==
    pc = "done" =>
        /\ output = Return(FirstSentencesOf(input.text, input.n))
        /\ Cardinality(Boundaries(output.value)) + 1 <= input.n

\* "A. B. C." with n = 2 gives "A. B."
C6_Witness ==
    /\ pc = "done"
    /\ input = [text |-> ExampleText, n |-> DefaultSentences]
    /\ output = Return(<<"A", ".", " ", "B", ".">>)

\* C7 as claimed: a text without a sentence boundary is returned unmodified,
\* character for character, leading and trailing whitespace included.
C7_NoBoundaryUnmodified_AsClaimed ==
    (pc = "done" /\ Boundaries(input.text) = {}) =>
        output = Return(input.text)

\* C7 amended: a text without a sentence boundary is returned with its
\* leading and trailing whitespace removed and otherwise unmodified.
C7_NoBoundaryTrimmed ==
    (pc = "done" /\ Boundaries(input.text) = {}) =>
        output = Return(Trimmed(input.text))

\* " Ab. b " has no boundary and comes back as "Ab. b".
C7_Witness ==
    /\ pc = "done"
    /\ Boundaries(input.text) = {}
    /\ input.text = <<" ", "A", "b", ".", " ", "b">>
    /\ output = Return(<<"A", "b", ".", " ", "b">>)

(***************************************************************************)
(* Commons: fetch_attribution                                              *)
(***************************************************************************)
\* d.get(key, default)
Get(d, key, default) == IF key \in DOMAIN d THEN d[key] ELSE default

\* strip_tags: the characters outside '<' ... '>'
RECURSIVE StripTagsFrom(_, _)
StripTagsFrom(text, inside) ==
    IF text = <<>> THEN <<>>
    ELSE IF Head(text) = "<" THEN StripTagsFrom(Tail(text), TRUE)
    ELSE IF Head(text) = ">" THEN StripTagsFrom(Tail(text), FALSE)
    ELSE IF ~inside THEN <<Head(text)>> \o StripTagsFrom(Tail(text), inside)
    ELSE StripTagsFrom(Tail(text), inside)

strip_tags(text) == Strip(StripTagsFrom(text, FALSE))

\* [f(v) for v in values if v]
RECURSIVE StripTruthy(_)
StripTruthy(values) ==
    IF values = <<>> THEN <<>>
    ELSE IF Head(values) # <<>>
         THEN <<strip_tags(Head(values))>> \o StripTruthy(Tail(values))
         ELSE StripTruthy(Tail(values))

NoValue == [value |-> <<>>]

fetch_attribution(meta) ==
    LET extmeta == Get(meta, "extmetadata", <<>>)
        artist == Get(Get(extmeta, "Artist", NoValue), "value", <<>>)
        license_name ==
            Get(Get(extmeta, "LicenseShortName", NoValue), "value", <<>>)
        credit == Get(Get(extmeta, "Credit", NoValue), "value", <<>>)
    IN  Join(StripTruthy(<<artist, credit, license_name>>), <<" ", "|", " ">>)

(***************************************************************************)
(* Bounds of the attribution check                                         *)
(***************************************************************************)
MaxFieldLen == 2

FieldAlphabet == {"<", ">", "a", " "}

RightsKeys == {"Artist", "Credit", "LicenseShortName"}

TaggedArtist ==
    <<"<", "a", ">", "J", ".", " ", "D", "o", "e", "<", "/", "a", ">">>

LicenseText == <<"C", "C", " ", "B", "Y", " ", "4", ".", "0">>

FieldTexts ==
    TextsUpTo(FieldAlphabet, MaxFieldLen)
    \cup { TaggedArtist, <<"<", "b", "r", ">">> }

\* Every record of rights fields: each key present or not.
RightsRecords ==
    UNION { [keys -> { [value |-> t] : t \in FieldTexts }] :
            keys \in SUBSET RightsKeys }
    \cup { [k \in RightsKeys |->
              [value |-> IF k = "Artist" THEN artist
                         ELSE IF k = "Credit" THEN <<>> ELSE LicenseText]] :
           artist \in {TaggedArtist, <<"<", "b", "r", ">">>} }

InitAttr ==
    /\ PlateIdle
    /\ DownloadIdle
    /\ ImageIdle
    /\ TaxonIdle
    /\ pc = "fetch_attribution"
    /\ input \in { [url |-> <<"u">>, extmetadata |-> x] : x \in RightsRecords }
                 \cup { [url |-> <<"u">>] }
    /\ output = NotCalled

CallFetchAttribution ==
    /\ pc = "fetch_attribution"
    /\ output' = Return(fetch_attribution(input))
    /\ pc' = "done"
    /\ UNCHANGED <<input, plateVars, downloadVars, imageVars, taxonVars>>

NextAttr == CallFetchAttribution

SpecAttr == InitAttr /\ [][NextAttr]_vars

\* A rights field as given, "" when the record lacks it
RightsField(meta, key) ==
    IF "extmetadata" \in DOMAIN meta /\ key \in DOMAIN meta.extmetadata
    THEN meta.extmetadata[key].value
    ELSE <<>>

\* The characters of t outside every '<' ... '>' span, trimmed: a character
\* is kept when it is no bracket and the nearest bracket before it, if any,
\* is a '>'.
WithoutTags(t) ==
    LET Bracket(i) == t[i] \in {"<", ">"}
        Outside(k) ==
            /\ ~Bracket(k)
            /\ \A i \in 1..(k - 1) :
                  t[i] = "<" => \E j \in (i + 1)..(k - 1) : t[j] = ">"
        kept == { k \in 1..Len(t) : Outside(k) }
        Nth(m) == CHOOSE k \in kept : Cardinality({ j \in kept : j <= k }) = m
    IN  Trimmed([ m \in 1..Cardinality(kept) |-> t[Nth(m)] ])

\* C8: the attribution is the tag-stripped artist, credit and license that
\* are non-empty after stripping, in that order, joined by " | "; a field
\* that is empty or strips to empty adds no part and no separator.
C8_Attribution ==
    pc = "done" =>
        LET Part(key) == WithoutTags(RightsField(input, key))
            parts == SelectSeq(<<Part("Artist"), Part("Credit"),
                                 Part("LicenseShortName")>>,
                               LAMBDA part : part # <<>>)
        IN  output =
              Return(IF Len(parts) = 0 THEN <<>>
                     ELSE IF Len(parts) = 1 THEN parts[1]
                     ELSE IF Len(parts) = 2
                          THEN parts[1] \o <<" ", "|", " ">> \o parts[2]
                     ELSE parts[1] \o <<" ", "|", " ">> \o parts[2]
                          \o <<" ", "|", " ">> \o parts[3])

(***************************************************************************)
(* Commons plates: clean_latin_name, latin_from_title                      *)
(***************************************************************************)
\* The index of the first c in t, 0 without one
RECURSIVE IndexOf(_, _, _)
IndexOf(t, c, i) ==
    IF i > Len(t) THEN 0
    ELSE IF t[i] = c THEN i
    ELSE IndexOf(t, c, i + 1)

\* The index of the last c in t, 0 without one
RECURSIVE LastIndexOf(_, _, _)
LastIndexOf(t, c, i) ==
    IF i < 1 THEN 0
    ELSE IF t[i] = c THEN i
    ELSE LastIndexOf(t, c, i - 1)

\* t.split(c, 1)[-1]
AfterFirst(t, c) ==
    IF IndexOf(t, c, 1) = 0 THEN t
    ELSE SubSeq(t, IndexOf(t, c, 1) + 1, Len(t))

\* t.rsplit(c, 1)[0]
BeforeLast(t, c) ==
    IF LastIndexOf(t, c, Len(t)) = 0 THEN t
    ELSE SubSeq(t, 1, LastIndexOf(t, c, Len(t)) - 1)

\* t.split(c)
RECURSIVE SplitOn(_, _)
SplitOn(t, c) ==
    IF IndexOf(t, c, 1) = 0 THEN <<t>>
    ELSE <<SubSeq(t, 1, IndexOf(t, c, 1) - 1)>>
         \o SplitOn(SubSeq(t, IndexOf(t, c, 1) + 1, Len(t)), c)

\* t.replace(c, d), c and d single characters
ReplaceChar(t, c, d) == [i \in 1..Len(t) |-> IF t[i] = c THEN d ELSE t[i]]

HasPrefixAt(t, i, prefix) ==
    /\ i + Len(prefix) - 1 <= Len(t)
    /\ SubSeq(t, i, i + Len(prefix) - 1) = prefix

Nbsp == <<"&", "n", "b", "s", "p">>

\* re.sub(r"&nbsp;?", " ", t)
RECURSIVE ReplaceNbsp(_, _)
ReplaceNbsp(t, i) ==
    IF i > Len(t) THEN <<>>
    ELSE IF HasPrefixAt(t, i, Nbsp)
         THEN <<" ">>
              \o ReplaceNbsp(t, IF HasPrefixAt(t, i + 5, <<";">>)
                                THEN i + 6 ELSE i + 5)
         ELSE <<t[i]>> \o ReplaceNbsp(t, i + 1)

\* re.sub(r"\s+", " ", t)
RECURSIVE CollapseSpaces(_, _)
CollapseSpaces(t, i) ==
    IF i > Len(t) THEN <<>>
    ELSE IF IsSpace(t[i])
         THEN <<" ">> \o CollapseSpaces(t, SpaceRunEnd(t, i) + 1)
         ELSE <<t[i]>> \o CollapseSpaces(t, i + 1)

\* len(t.split()): the number of whitespace-separated words
WordCount(t) ==
    Cardinality({ i \in 1..Len(t) :
                    ~IsSpace(t[i]) /\ (i = 1 \/ IsSpace(t[i - 1])) })

clean_latin_name(name) ==
    LET stripped == Strip(name)
        cleaned == CollapseSpaces(ReplaceNbsp(stripped, 1), 1)
    IN  IF stripped = <<>> THEN None
        ELSE IF WordCount(cleaned) < 1 THEN None
        ELSE cleaned

\* [p.strip() for p in pieces if p.strip()]
RECURSIVE StrippedNonEmpty(_)
StrippedNonEmpty(pieces) ==
    IF pieces = <<>> THEN <<>>
    ELSE IF Strip(Head(pieces)) # <<>>
         THEN <<Strip(Head(pieces))>> \o StrippedNonEmpty(Tail(pieces))
         ELSE StrippedNonEmpty(Tail(pieces))

\* The mutant: parts[0] for parts[-1]
latin_from_title_first(title) ==
    LET base == BeforeLast(AfterFirst(title, ":"), ".")
        parts == StrippedNonEmpty(SplitOn(base, "-"))
    IN  IF parts = <<>> THEN None
        ELSE clean_latin_name(ReplaceChar(parts[1], "_", " "))

latin_from_title(title) ==
    LET base == BeforeLast(AfterFirst(title, ":"), ".")
        parts == StrippedNonEmpty(SplitOn(base, "-"))
    IN  IF parts = <<>> THEN None
        ELSE clean_latin_name(ReplaceChar(parts[Len(parts)], "_", " "))

(***************************************************************************)
(* Bounds of the title check                                               *)
(***************************************************************************)
MaxTitleTokens == 5

\* A title is built of these pieces; "&nbsp;" stands for its six characters.
TitleTokens == {":", ".", "-", "_", " ", "a", "&nbsp;"}

TokenText(token) ==
    IF token = "&nbsp;" THEN Nbsp \o <<";">> ELSE <<token>>

RECURSIVE Flatten(_)
Flatten(tokens) ==
    IF tokens = <<>> THEN <<>>
    ELSE TokenText(Head(tokens)) \o Flatten(Tail(tokens))

\* "File:Hartinger - Atlas - Gentiana_verna.jpg"
PlateTitle ==
    <<"F", "i", "l", "e", ":", "H", "a", "r", "t", "i", "n", "g", "e", "r",
      " ", "-", " ", "A", "t", "l", "a", "s", " ", "-", " ",
      "G", "e", "n", "t", "i", "a", "n", "a", "_", "v", "e", "r", "n", "a",
      ".", "j", "p", "g">>

GentianaVerna ==
    <<"G", "e", "n", "t", "i", "a", "n", "a", " ", "v", "e", "r", "n", "a">>

Titles ==
    { Flatten(tokens) : tokens \in TextsUpTo(TitleTokens, MaxTitleTokens) }
    \cup { PlateTitle,
           <<"a", "&", "n", "b", "s", "p", "a", "\t", "_", "a">> }

InitTitle ==
    /\ PlateIdle
    /\ DownloadIdle
    /\ ImageIdle
    /\ TaxonIdle
    /\ pc = "latin_from_title"
    /\ input \in Titles
    /\ output = NotCalled

CallLatinFromTitle ==
    /\ pc = "latin_from_title"
    /\ output' = Return(latin_from_title(input))
    /\ pc' = "done"
    /\ UNCHANGED <<input, plateVars, downloadVars, imageVars, taxonVars>>

NextTitle == CallLatinFromTitle

SpecTitle == InitTitle /\ [][NextTitle]_vars

\* The bounds <<a, b>> of the last '-'-separated segment of the title's
\* basename that holds a character other than whitespace; <<0, 0>> without
\* one.  The basename starts after the first ':' and ends before the last
\* '.' that follows it.
LastSegmentBounds(t) ==
    LET colons == { i \in 1..Len(t) : t[i] = ":" }
        lo == IF colons = {} THEN 1
              ELSE 1 + CHOOSE i \in colons : \A j \in colons : i <= j
        dots == { i \in lo..Len(t) : t[i] = "." }
        hi == IF dots = {} THEN Len(t)
              ELSE (CHOOSE i \in dots : \A j \in dots : j <= i) - 1
        segments ==
            { ab \in (lo..hi) \X (lo..hi) :
                /\ ab[1] <= ab[2]
                /\ \A k \in ab[1]..ab[2] : t[k] # "-"
                /\ ab[1] = lo \/ t[ab[1] - 1] = "-"
                /\ ab[2] = hi \/ t[ab[2] + 1] = "-"
                /\ \E k \in ab[1]..ab[2] : ~IsSpace(t[k]) }
    IN  IF segments = {} THEN <<0, 0>>
        ELSE CHOOSE ab \in segments : \A cd \in segments : cd[1] <= ab[1]

\* C10: latin_from_title returns the last non-empty '-'-separated segment
\* of the title's basename (namespace prefix and extension removed) with
\* underscores replaced by spaces and whitespace cleaned: trimmed, each
\* "&nbsp;" made a space, each run of whitespace made one space; nothing is
\* returned when no segment or nothing but whitespace is left.
C10_LatinFromTitle ==
    pc = "done" =>
        LET ab == LastSegmentBounds(input)
            segment == [ k \in 1..(ab[2] - ab[1] + 1) |->
                           IF input[ab[1] + k - 1] = "_" THEN " "
                           ELSE input[ab[1] + k - 1] ]
            cleaned == CollapseSpaces(ReplaceNbsp(Trimmed(segment), 1), 1)
        IN  output = Return(IF ab = <<0, 0>> THEN None
                            ELSE IF \A k \in 1..Len(cleaned) : IsSpace(cleaned[k])
                                 THEN None
                            ELSE cleaned)

\* "File:Hartinger - Atlas - Gentiana_verna.jpg" yields "Gentiana verna".
C10_Witness ==
    /\ pc = "done"
    /\ input = PlateTitle
    /\ output = Return(GentianaVerna)

(***************************************************************************)
(* Commons plates: latin_from_metadata, gather_latin_names                 *)
(***************************************************************************)
AsciiUpper ==
    {"A", "B", "C", "D", "E", "F", "G", "H", "I", "J", "K", "L", "M",
     "N", "O", "P", "Q", "R", "S", "T", "U", "V", "W", "X", "Y", "Z"}

AsciiLower ==
    {"a", "b", "c", "d", "e", "f", "g", "h", "i", "j", "k", "l", "m",
     "n", "o", "p", "q", "r", "s", "t", "u", "v", "w", "x", "y", "z"}

DigitChars == {"0", "1", "2", "3", "4", "5", "6", "7", "8", "9"}

\* \w, for the characters of the model
IsWordChar(c) == c \in AsciiUpper \cup AsciiLower \cup DigitChars \cup {"_"}

\* re.search(r"\d", title)
HasDigit(title) == \E i \in 1..Len(title) : title[i] \in DigitChars

\* The last index of the run of characters other than '<' from i on; i - 1
\* when there is none.
RECURSIVE NotLtRunEnd(_, _)
NotLtRunEnd(t, i) ==
    IF i <= Len(t) /\ t[i] # "<" THEN NotLtRunEnd(t, i + 1) ELSE i - 1

\* The last index of the run of [a-z] from i on; i - 1 when there is none.
RECURSIVE LowerRunEnd(_, _)
LowerRunEnd(t, i) ==
    IF i <= Len(t) /\ t[i] \in AsciiLower THEN LowerRunEnd(t, i + 1) ELSE i - 1

ItalicOpenAt(t, i) ==
    /\ i + 2 <= Len(t)
    /\ t[i] = "<" /\ t[i + 1] \in {"i", "I"} /\ t[i + 2] = ">"

ItalicCloseAt(t, i) ==
    /\ i + 3 <= Len(t)
    /\ t[i] = "<" /\ t[i + 1] = "/" /\ t[i + 2] \in {"i", "I"} /\ t[i + 3] = ">"

\* re.findall(r"<i>([^<]+)</i>", t, flags=re.IGNORECASE), from i on
RECURSIVE ItalicsFrom(_, _)
ItalicsFrom(t, i) ==
    IF i > Len(t) THEN <<>>
    ELSE IF /\ ItalicOpenAt(t, i)
            /\ NotLtRunEnd(t, i + 3) >= i + 3
            /\ ItalicCloseAt(t, NotLtRunEnd(t, i + 3) + 1)
         THEN <<SubSeq(t, i + 3, NotLtRunEnd(t, i + 3))>>
              \o ItalicsFrom(t, NotLtRunEnd(t, i + 3) + 5)
         ELSE ItalicsFrom(t, i + 1)

\* Where \b([A-Z][a-z]+(?:\s+[a-z]{2,}))\b matches from i: the index of its
\* last character, 0 when it does not match.
BinomialEndAt(t, i) ==
    LET genusEnd == LowerRunEnd(t, i + 1)
        gapEnd == IF genusEnd < Len(t) /\ IsSpace(t[genusEnd + 1])
                  THEN SpaceRunEnd(t, genusEnd + 1) ELSE genusEnd
        epithetEnd == LowerRunEnd(t, gapEnd + 1)
    IN  IF /\ i = 1 \/ ~IsWordChar(t[i - 1])
           /\ t[i] \in AsciiUpper
           /\ genusEnd >= i + 1
           /\ gapEnd > genusEnd
           /\ epithetEnd >= gapEnd + 2
           /\ epithetEnd = Len(t) \/ ~IsWordChar(t[epithetEnd + 1])
        THEN epithetEnd
        ELSE 0

\* re.findall(r"\b([A-Z][a-z]+(?:\s+[a-z]{2,}))\b", t), from i on
RECURSIVE BinomialsFrom(_, _)
BinomialsFrom(t, i) ==
    IF i > Len(t) THEN <<>>
    ELSE IF BinomialEndAt(t, i) # 0
         THEN <<SubSeq(t, i, BinomialEndAt(t, i))>>
              \o BinomialsFrom(t, BinomialEndAt(t, i) + 1)
         ELSE BinomialsFrom(t, i + 1)

\* The cleaned names of the matches, those that clean to nothing left out
CleanedNames(matches) ==
    { clean_latin_name(matches[i]) : i \in 1..Len(matches) } \ {None}

\* The names found in one metadata text
NamesInText(text) ==
    IF text = <<>> THEN {}
    ELSE CleanedNames(ItalicsFrom(text, 1))
         \cup CleanedNames(BinomialsFrom(text, 1))

latin_from_metadata(page) ==
    LET imageinfo == Get(page, "imageinfo", <<>>)
    IN  IF imageinfo = <<>> THEN {}
        ELSE LET md == Get(imageinfo[1], "extmetadata", <<>>)
                 description ==
                     Get(Get(md, "ImageDescription", NoValue), "value", <<>>)
                 object_name ==
                     Get(Get(md, "ObjectName", NoValue), "value", <<>>)
             IN  NamesInText(description) \cup NamesInText(object_name)

\* Printable ASCII in code point order, from " " (32) on; the backtick (96)
\* is spelled out.
AsciiTable ==
    <<" ", "!", "\"", "#", "$", "%", "&", "'", "(", ")", "*", "+", ",", "-",
      ".", "/", "0", "1", "2", "3", "4", "5", "6", "7", "8", "9", ":", ";",
      "<", "=", ">", "?", "@", "A", "B", "C", "D", "E", "F", "G", "H", "I",
      "J", "K", "L", "M", "N", "O", "P", "Q", "R", "S", "T", "U", "V", "W",
      "X", "Y", "Z", "[", "\\", "]", "^", "_", "(backtick)", "a", "b", "c", "d", "e",
      "f", "g", "h", "i", "j", "k", "l", "m", "n", "o", "p", "q", "r", "s",
      "t", "u", "v", "w", "x", "y", "z", "{", "|", "}", "~">>

\* ord(c)
CodePoint(c) == 31 + CHOOSE i \in 1..Len(AsciiTable) : AsciiTable[i] = c

\* a < b for Python strings
RECURSIVE StrLess(_, _)
StrLess(a, b) ==
    IF b = <<>> THEN FALSE
    ELSE IF a = <<>> THEN TRUE
    ELSE IF Head(a) = Head(b) THEN StrLess(Tail(a), Tail(b))
    ELSE CodePoint(Head(a)) < CodePoint(Head(b))

\* sorted(names)
RECURSIVE Sorted(_)
Sorted(strings) ==
    IF strings = {} THEN <<>>
    ELSE LET least == CHOOSE x \in strings :
                          \A y \in strings \ {x} : StrLess(x, y)
         IN  <<least>> \o Sorted(strings \ {least})

\* The mutant: the title's name only when the metadata gave none
choose_latin_name_fallback(page, title) ==
    LET latin_candidates ==
            IF latin_from_metadata(page) # {} THEN latin_from_metadata(page)
            ELSE IF Falsy(latin_from_title(title)) THEN {}
            ELSE {latin_from_title(title)}
    IN  IF latin_candidates # {} THEN Sorted(latin_candidates)[1] ELSE None

\* Lines 167-173 of gather_latin_names: the name recorded for one file
choose_latin_name(page, title) ==
    LET title_candidate == latin_from_title(title)
        latin_candidates ==
            latin_from_metadata(page)
            \cup (IF Falsy(title_candidate) THEN {} ELSE {title_candidate})
    IN  IF latin_candidates # {} THEN Sorted(latin_candidates)[1] ELSE None

DEFAULT_CATEGORIES ==
    << <<"Atlas der Alpenflora, Volume 1">>,
       <<"Atlas der Alpenflora, Volume 2">>,
       <<"Atlas der Alpenflora, Volume 3">>,
       <<"Atlas der Alpenflora, Volume 4">> >>

PlateEntry(title, latin_name, source_category) ==
    [title |-> title, latin_name |-> latin_name,
     source_category |-> source_category]

(***************************************************************************)
(* Bounds of the harvest check                                             *)
(***************************************************************************)
MaxFiles == 2

TitleNumbered == <<"F", "i", "l", "e", ":", "P", "l", "a", "t", "e", " ", "1", "2", ".", "j", "p", "g">>

TitleBare == <<"F", "i", "l", "e", ":", "-", ".", "j", "p", "g">>

HarvestTitles == {PlateTitle, TitleNumbered, TitleBare}

Listings == UNION { [1..n -> HarvestTitles] : n \in 0..MaxFiles }

Described(description, object_name) ==
    [imageinfo |->
        << [extmetadata |->
              [ImageDescription |-> [value |-> description],
               ObjectName |-> [value |-> object_name]]] >>]

\* Pages as fetch_metadata returns them: without image info, with an italic
\* name, with plain-text names, with a caption that is no taxon.
Pages ==
    { [missing |-> TRUE],
      Described(<<"<", "i", ">", "A", "b", "i", "e", "s", " ", "a", "l", "b", "a", "<", "/", "i", ">">>, <<>>),
      Described(<<"Z", "e", "a", " ", "m", "a", "y", "s", " ", "L", ".">>, <<"<", "I", ">", "P", "o", "a", "<", "/", "I", ">">>),
      Described(<<"b", "y", " ", "A", "n", "t", "o", "n", " ", "h", "a", "r", "t", "i", "n", "g", "e", "r">>, <<>>) }

\* The categories given to gather_latin_names
CategoryLists ==
    { <<>>, <<DEFAULT_CATEGORIES[1]>>,
      <<DEFAULT_CATEGORIES[1], DEFAULT_CATEGORIES[2]>> }

TitlesOf(listing) == { listing[i] : i \in 1..Len(listing) }

InitPlate ==
    /\ pc = "category"
    /\ input \in CategoryLists
    /\ output = NotCalled
    /\ category = 1
    /\ files = <<>>
    /\ metadata = <<>>
    /\ fileIdx = 0
    /\ entries = <<>>
    /\ seen_titles = {}
    /\ ImageIdle
    /\ DownloadIdle
    /\ TaxonIdle

\* files = list(client.category_files(category)); an empty listing is
\* skipped, else metadata = client.fetch_metadata(files).
FetchCategory ==
    /\ pc = "category"
    /\ category <= Len(input)
    /\ \E listing \in Listings :
          /\ files' = listing
          /\ IF listing = <<>>
             THEN /\ category' = category + 1
                  /\ UNCHANGED <<pc, metadata, fileIdx>>
             ELSE /\ \E keys \in SUBSET TitlesOf(listing) :
                        \E pages \in [keys -> Pages] : metadata' = pages
                  /\ fileIdx' = 1
                  /\ pc' = "file"
                  /\ UNCHANGED category
    /\ UNCHANGED <<input, output, entries, seen_titles, imageVars, taxonVars, downloadVars>>

\* CommonsClient.get raises for a failed request; gather_latin_names does
\* not catch it.
FetchCategoryFails ==
    /\ pc = "category"
    /\ category <= Len(input)
    /\ output' = Raise(RequestException)
    /\ pc' = "raised"
    /\ UNCHANGED <<input, plateVars, downloadVars, imageVars, taxonVars>>

\* One iteration of "for title in files"
HarvestFile ==
    /\ pc = "file"
    /\ LET title == files[fileIdx]
           page == Get(metadata, title, <<>>)
       IN  IF HasDigit(title) \/ title \in seen_titles
           THEN UNCHANGED <<entries, seen_titles>>
           ELSE /\ entries' =
                     Append(entries,
                            PlateEntry(title, choose_latin_name(page, title),
                                       input[category]))
                /\ seen_titles' = seen_titles \cup {title}
    /\ IF fileIdx < Len(files)
       THEN /\ fileIdx' = fileIdx + 1
            /\ UNCHANGED <<pc, category>>
       ELSE /\ category' = category + 1
            /\ pc' = "category"
            /\ UNCHANGED fileIdx
    /\ UNCHANGED <<input, output, files, metadata, imageVars, taxonVars, downloadVars>>

ReturnEntries ==
    /\ pc = "category"
    /\ category > Len(input)
    /\ output' = Return(entries)
    /\ pc' = "done"
    /\ UNCHANGED <<input, plateVars, downloadVars, imageVars, taxonVars>>

NextPlate ==
    \/ FetchCategory
    \/ FetchCategoryFails
    \/ HarvestFile
    \/ ReturnEntries

SpecPlate == InitPlate /\ [][NextPlate]_vars

\* The candidates of a file: those of its metadata with that of its title
CandidatesOf(page, title) ==
    latin_from_metadata(page)
    \cup (IF latin_from_title(title) = None THEN {}
          ELSE {latin_from_title(title)})

\* C9: the name recorded for a harvested file is the lexicographically
\* smallest of the metadata-derived candidates together with the
\* title-derived candidate, and is absent only when there is no candidate.
C9_SmallestCandidateRecorded ==
    [][ Len(entries') = Len(entries) + 1 =>
          LET entry == entries'[Len(entries')]
              candidates ==
                  CandidatesOf(Get(metadata, entry.title, <<>>), entry.title)
          IN  /\ entry.title = files[fileIdx]
              /\ candidates = {} => entry.latin_name = None
              /\ candidates # {} =>
                    /\ entry.latin_name \in candidates
                    /\ \A name \in candidates :
                          ~StrLess(name, entry.latin_name) ]_vars

\* The title's "Gentiana verna" is recorded although the metadata gave
\* candidates too ("Zea mays", "Poa"): it is the smallest of them all.
C9_Witness ==
    /\ pc = "file"
    /\ fileIdx > 1
    /\ files[fileIdx - 1] = PlateTitle
    /\ entries # <<>>
    /\ entries[Len(entries)] =
         PlateEntry(PlateTitle, GentianaVerna, input[category])
    /\ latin_from_metadata(Get(metadata, PlateTitle, <<>>)) # {}
    /\ latin_from_title(PlateTitle) \notin
         latin_from_metadata(Get(metadata, PlateTitle, <<>>))

(***************************************************************************)
(* Commons images: resolve_image                                           *)
(***************************************************************************)
\* DEFAULT_TEMPLATE.format(latin=latin)
DEFAULT_TEMPLATE(latin) == <<"Atlas der Alpenflora ">> \o latin \o <<".jpg">>

normalize_title(title) == ReplaceChar(title, " ", "_")

\* Every order of the elements of a set, as sequences
Orderings(S) ==
    { order \in [1..Cardinality(S) -> S] :
        \A i, j \in 1..Cardinality(S) : order[i] = order[j] => i = j }

\* The candidate titles are listed from a set, whose iteration order is not
\* defined: every list the call may return.
build_candidate_titles(latin_name) ==
    LET variants == { DEFAULT_TEMPLATE(latin_name),
                      DEFAULT_TEMPLATE(normalize_title(latin_name)) }
    IN  { [i \in 1..Len(order) |-> <<"File:">> \o order[i]] :
          order \in Orderings(variants) }

\* query_image_info, given the answer to its request
query_image_info(data) ==
    LET pages == Get(Get(data, "query", <<>>), "pages", <<>>)
    IN  IF pages = <<>> THEN None
        ELSE IF Get(pages[1], "missing", FALSE) THEN None
        ELSE IF Get(pages[1], "imageinfo", <<>>) = <<>> THEN None
        ELSE Get(pages[1], "imageinfo", <<>>)[1]

\* The titles search_commons yields, given the answer to its request
RECURSIVE HitTitles(_)
HitTitles(search) ==
    IF search = <<>> THEN <<>>
    ELSE IF Get(Head(search), "title", <<>>) # <<>>
         THEN <<Head(search).title>> \o HitTitles(Tail(search))
         ELSE HitTitles(Tail(search))

\* The mutant: the hits are yielded from the last to the first
search_commons_reversed(data) ==
    LET hits == HitTitles(Get(Get(data, "query", <<>>), "search", <<>>))
    IN [i \in 1..Len(hits) |-> hits[Len(hits) + 1 - i]]

search_commons(data) == HitTitles(Get(Get(data, "query", <<>>), "search", <<>>))

InfoRequest(title) == [action |-> "query", prop |-> "imageinfo", titles |-> title]

SearchRequest(latin_name) ==
    [action |-> "query", list |-> "search",
     srsearch |-> <<"intitle:\"Atlas der Alpenflora\" ">> \o latin_name]

\* for candidate in build_candidate_titles(latin_name)
StartResolve ==
    /\ pc = "resolve_image"
    /\ queue' \in build_candidate_titles(input)
    /\ pc' = "exact"
    /\ UNCHANGED <<input, output, repo, requests, plateVars, downloadVars, taxonVars>>

\* One iteration of either loop: look up the next title, return its info
\* when there is one.
LookupNext(loop) ==
    /\ pc = loop
    /\ queue # <<>>
    /\ requests' = Append(requests, InfoRequest(Head(queue)))
    /\ LET info == query_image_info(repo.info[Head(queue)])
       IN  IF ~Falsy(info)
           THEN /\ output' = Return(info)
                /\ pc' = "done"
                /\ UNCHANGED queue
           ELSE /\ queue' = Tail(queue)
                /\ UNCHANGED <<pc, output>>
    /\ UNCHANGED <<input, repo, plateVars, downloadVars, taxonVars>>

\* The mutant: an exact title's info is kept aside and the loops go on
LookupCandidateAndGoOn ==
    /\ pc = "exact"
    /\ queue # <<>>
    /\ requests' = Append(requests, InfoRequest(Head(queue)))
    /\ queue' = Tail(queue)
    /\ UNCHANGED <<pc, output, input, repo, plateVars, downloadVars, taxonVars>>

LookupCandidate == LookupNext("exact")

\* The exact titles are spent: search_commons sends its request when the
\* second loop asks for its first title.
SearchCommons ==
    /\ pc = "exact"
    /\ queue = <<>>
    /\ requests' = Append(requests, SearchRequest(input))
    /\ queue' = search_commons(repo.search)
    /\ pc' = "hits"
    /\ UNCHANGED <<input, output, repo, plateVars, downloadVars, taxonVars>>

LookupHit == LookupNext("hits")

\* return None
ReturnNoImage ==
    /\ pc = "hits"
    /\ queue = <<>>
    /\ output' = Return(None)
    /\ pc' = "done"
    /\ UNCHANGED <<input, repo, queue, requests, plateVars, downloadVars, taxonVars>>

URLError == <<"URLError">>

\* urlopen raises inside fetch_json; resolve_image does not catch it.
RequestFails ==
    /\ pc \in {"exact", "hits"}
    /\ pc = "hits" => queue # <<>>
    /\ requests' =
         Append(requests, IF pc = "exact" /\ queue = <<>>
                          THEN SearchRequest(input)
                          ELSE InfoRequest(Head(queue)))
    /\ output' = Raise(URLError)
    /\ pc' = "raised"
    /\ UNCHANGED <<input, repo, queue, plateVars, downloadVars, taxonVars>>

(***************************************************************************)
(* Bounds of the image check                                               *)
(***************************************************************************)
MaxHits == 2

LatinNames == { <<"Gentiana", " ", "verna">>, <<"Zea">> }

CandidateTitles(latin_name) ==
    { <<"File:">> \o DEFAULT_TEMPLATE(latin_name),
      <<"File:">> \o DEFAULT_TEMPLATE(normalize_title(latin_name)) }

OtherTitles == { <<"File:", "Plate A.jpg">>, <<"File:", "Plate B.jpg">> }

\* The info of a page, by its url
ImageInfo(title) == <<"https://upload.wikimedia.org/">> \o title

\* The answers to an image-info request: no page, a missing page, a page
\* without image info, a page with it.
InfoAnswers(title) ==
    { [batchcomplete |-> TRUE],
      [query |-> [pages |-> << [title |-> title, missing |-> TRUE] >>]],
      [query |-> [pages |-> << [title |-> title] >>]],
      [query |-> [pages |-> << [title |-> title,
                                 imageinfo |-> <<ImageInfo(title)>>] >>]] }

\* A hit of the search: a title, or none
Hits == { [title |-> t] : t \in OtherTitles } \cup { [ns |-> 6] }

SearchAnswers ==
    { [batchcomplete |-> TRUE] }
    \cup { [query |-> [search |-> hits]] :
           hits \in UNION { [1..n -> Hits] : n \in 1..MaxHits } }

Repositories(latin_name) ==
    { [info |-> info, search |-> search] :
        info \in { f \in [CandidateTitles(latin_name) \cup OtherTitles ->
                            UNION { InfoAnswers(t) :
                                    t \in CandidateTitles(latin_name)
                                          \cup OtherTitles }] :
                     \A t \in DOMAIN f : f[t] \in InfoAnswers(t) },
        search \in SearchAnswers }

InitImage ==
    /\ pc = "resolve_image"
    /\ input \in LatinNames
    /\ output = NotCalled
    /\ repo \in Repositories(input)
    /\ queue = <<>>
    /\ requests = <<>>
    /\ PlateIdle
    /\ DownloadIdle
    /\ TaxonIdle

NextImage ==
    \/ StartResolve
    \/ LookupCandidate
    \/ SearchCommons
    \/ LookupHit
    \/ ReturnNoImage
    \/ RequestFails

SpecImage == InitImage /\ [][NextImage]_vars

(***************************************************************************)
(* Claim C4                                                                *)
(***************************************************************************)
IsSearch(request) == "list" \in DOMAIN request

SearchSent == \E k \in 1..Len(requests) : IsSearch(requests[k])

\* The page of that title carries image info.
Resolves(title) ==
    /\ "query" \in DOMAIN repo.info[title]
    /\ \E page \in { repo.info[title].query.pages[1] } :
         /\ "missing" \notin DOMAIN page
         /\ "imageinfo" \in DOMAIN page

\* C4: when resolve_image sends the search request, every exact-template
\* title of the Latin name has been looked up before it, and none of them
\* carries image info: with an exact title that resolves, the search is
\* never sent.
C4_ExactTitlesBeforeSearch ==
    \A k \in 1..Len(requests) :
        IsSearch(requests[k]) =>
            \A title \in CandidateTitles(input) :
                /\ \E j \in 1..(k - 1) : requests[j] = InfoRequest(title)
                /\ ~Resolves(title)

\* "Gentiana verna": the first exact title looked up has no image, the
\* second resolves and is returned; the search would have found a plate with
\* an image, and was not sent.
C4_Witness ==
    /\ pc = "done"
    /\ input = <<"Gentiana", " ", "verna">>
    /\ Len(requests) = 2
    /\ \E title \in CandidateTitles(input) :
         /\ Resolves(title)
         /\ output = Return(ImageInfo(title))
         /\ requests[2] = InfoRequest(title)
    /\ ~SearchSent
    /\ \E title \in OtherTitles :
         /\ Resolves(title)
         /\ search_commons(repo.search) = <<title>>

(***************************************************************************)
(* Wikidata entities: fetch_entity and the claim readers                   *)
(***************************************************************************)
\* The mutant: a failed request gives an entity without claims
fetch_entity_or_empty(response, qid) ==
    IF ~response.ok THEN Return([id |-> qid, claims |-> <<>>])
    ELSE IF qid \notin DOMAIN response.data.entities THEN Raise(KeyError)
    ELSE Return(response.data.entities[qid])

\* fetch_entity, given the answer to its request
fetch_entity(response, qid) ==
    IF ~response.ok THEN Raise(RequestException)
    ELSE IF qid \notin DOMAIN response.data.entities THEN Raise(KeyError)
    ELSE Return(response.data.entities[qid])

\* The first claim of a property, or <<>>
FirstClaim(entity, prop) ==
    LET claims == Get(Get(entity, "claims", <<>>), prop, <<>>)
    IN  IF claims = <<>> THEN <<>> ELSE <<claims[1]>>

\* The value of that claim when isinstance(val, kind), otherwise <<>>
ClaimValue(entity, prop, kind) ==
    LET claim == FirstClaim(entity, prop)
    IN  IF claim = <<>> THEN <<>>
        ELSE IF "datavalue" \notin DOMAIN claim[1].mainsnak THEN <<>>
        ELSE IF claim[1].mainsnak.datavalue.type # kind THEN <<>>
        ELSE <<claim[1].mainsnak.datavalue.value>>

claim_value_id(entity, prop) ==
    LET val == ClaimValue(entity, prop, "wikibase-entityid")
    IN  IF val # <<>> /\ "id" \in DOMAIN val[1] THEN val[1].id ELSE None

claim_string(entity, prop) ==
    LET val == ClaimValue(entity, prop, "string")
    IN  IF val # <<>> THEN val[1] ELSE None

get_rank_qid(entity) == claim_value_id(entity, "P105")

get_parent_taxon_qid(entity) == claim_value_id(entity, "P171")

\* The mutant: the name is read as an item identifier
get_taxon_name_as_id(entity) == claim_value_id(entity, "P225")

get_taxon_name(entity) == claim_string(entity, "P225")

EntityRequest(qid) == [get |-> "entity", qid |-> qid]

(***************************************************************************)
(* An exception leaves build_payload, or the function called alone         *)
(***************************************************************************)
\* run_batch catches SystemExit and requests.RequestException, counts the
\* name as failed and goes on; anything else, and everything in the other
\* modes, ends the run.
\* The mutant: run_batch without its except clauses
ThrowPastBatch(e) ==
    /\ output' = Raise(e)
    /\ pc' = "exit"
    /\ UNCHANGED <<mode, names, results, failures, target_file>>

Throw(e) ==
    IF mode = "batch" /\ e \in {SystemExit, RequestException}
    THEN /\ failures' = failures + 1
         /\ names' = Tail(names)
         /\ pc' = "loop"
         /\ UNCHANGED <<output, mode, results, target_file>>
    ELSE /\ output' = Raise(e)
         /\ pc' = "exit"
         /\ UNCHANGED <<mode, names, results, failures, target_file>>

(***************************************************************************)
(* walk_up_to_rank                                                         *)
(***************************************************************************)
\* The mutant: one iteration more
max_steps_and_one == 10 + 1

max_steps == 10

StartWalk(start_qid, target_rank_qid) ==
    [qid |-> start_qid, target |-> target_rank_qid, steps |-> 0]

\* return from walk_up_to_rank to where it was called
WalkReturn(at, value) ==
    IF at = "genus"
    THEN /\ frame' = [frame EXCEPT !.genus = value]
         /\ walker' = StartWalk(frame.qid, RANK_FAMILY)
         /\ pc' = "family"
         /\ UNCHANGED <<output, mode, names, results, failures, target_file>>
    ELSE IF at = "family"
    THEN /\ frame' = [frame EXCEPT !.family = value]
         /\ pc' = "english"
         /\ UNCHANGED <<output, walker, mode, names, results, failures,
                        target_file>>
    ELSE /\ output' = Return(value)
         /\ pc' = "done"
         /\ UNCHANGED <<walker, batchVars>>

\* One iteration of the loop: one fetch
WalkStep(at) ==
    /\ pc = at
    /\ walker.steps < max_steps
    /\ calls' = Append(calls, EntityRequest(walker.qid))
    /\ LET fetched == fetch_entity(wikidata.entities[walker.qid], walker.qid)
           ent == fetched.value
       IN  IF fetched.kind = "raise"
           THEN /\ Throw(fetched.value)
                /\ UNCHANGED <<walker, frame>>
           ELSE IF get_rank_qid(ent) = walker.target
           THEN WalkReturn(at, get_taxon_name(ent))
           ELSE IF Falsy(get_parent_taxon_qid(ent))
           THEN WalkReturn(at, None)
           ELSE /\ walker' = [walker EXCEPT !.qid = get_parent_taxon_qid(ent),
                                            !.steps = @ + 1]
                /\ UNCHANGED <<pc, output, batchVars>>
    /\ UNCHANGED <<input, wikidata, plateVars, downloadVars, imageVars>>

\* range(max_steps) is spent: return None
WalkExhausted(at) ==
    /\ pc = at
    /\ walker.steps >= max_steps
    /\ WalkReturn(at, None)
    /\ UNCHANGED <<input, wikidata, calls, plateVars, downloadVars, imageVars>>

(***************************************************************************)
(* Bounds of the walk check: chains of parent taxa                         *)
(***************************************************************************)
MaxChain == 11

ItemClaim(qid) ==
    [mainsnak |-> [snaktype |-> "value",
                   datavalue |-> [type |-> "wikibase-entityid",
                                  value |-> [id |-> qid]]]]

StringClaim(str) ==
    [mainsnak |-> [snaktype |-> "value",
                   datavalue |-> [type |-> "string", value |-> str]]]

NoValueClaim == [mainsnak |-> [snaktype |-> "novalue"]]

\* The claims of an entity: each of rank, parent and name is <<>> or a claim
Claims(rank, parent, name) ==
    [prop \in { p \in {"P105"} : rank # <<>> }
              \cup { p \in {"P171"} : parent # <<>> }
              \cup { p \in {"P225"} : name # <<>> } |->
        IF prop = "P105" THEN rank
        ELSE IF prop = "P171" THEN parent ELSE name]

Entity(qid, claims) == [id |-> qid, claims |-> claims]

\* The answers to an entity request: the entity, the entity under another
\* identifier (a redirect), an HTTP error
EntityAnswer(qid, entity, answer) ==
    IF answer = "error" THEN [ok |-> FALSE]
    ELSE IF answer = "redirect"
    THEN [ok |-> TRUE, data |-> [entities |-> (<<"Q", "0">> :> entity)]]
    ELSE [ok |-> TRUE, data |-> [entities |-> (qid :> entity)]]

TaxonName(i) == <<"Taxon ", Digits[i]>>

\* A rank that is not the target's
OtherRank(target_rank_qid) ==
    IF target_rank_qid = RANK_GENUS THEN RANK_SPECIES ELSE RANK_GENUS

\* Q1 -> Q2 -> ... -> Qn, where Qn has no parent (back = 0) or the parent
\* Q<back>; node `hit` (if any) has the target rank, the others have
\* another rank, a rank without value or none; the last node answers as
\* `answer` says.
Chain(n, hit, back, target_rank_qid, others, named, answer) ==
    [q \in { Qid(i) : i \in 1..n } |->
        LET i == CHOOSE k \in 1..n : Qid(k) = q
            rank == IF i = hit THEN <<ItemClaim(target_rank_qid)>>
                    ELSE IF others = "ranked"
                         THEN <<ItemClaim(OtherRank(target_rank_qid))>>
                    ELSE IF others = "novalue" THEN <<NoValueClaim>>
                    ELSE <<>>
            parent == IF i < n THEN <<ItemClaim(Qid(i + 1))>>
                      ELSE IF back # 0 THEN <<ItemClaim(Qid(back))>>
                      ELSE <<>>
            name == IF named THEN <<StringClaim(TaxonName(i))>> ELSE <<>>
        IN  EntityAnswer(q, Entity(q, Claims(rank, parent, name)),
                         IF i = n THEN answer ELSE "entity")]

Chains(target_rank_qid) ==
    { Chain(n, hit, back, target_rank_qid, others, named, answer) :
        n \in 1..MaxChain, hit \in 0..MaxChain, back \in 0..1,
        others \in {"ranked", "novalue", "unranked"},
        named \in BOOLEAN, answer \in {"entity", "redirect", "error"} }

InitWalk ==
    /\ pc = "walk"
    /\ input = Qid(1)
    /\ output = NotCalled
    /\ \E target_rank_qid \in {RANK_GENUS, RANK_FAMILY} :
         /\ wikidata \in { [entities |-> chain] :
                           chain \in Chains(target_rank_qid) }
         /\ walker = StartWalk(input, target_rank_qid)
    /\ calls = <<>>
    /\ BatchIdle
    /\ PlateIdle
    /\ DownloadIdle
    /\ ImageIdle

CallWalkStep == WalkStep("walk")

CallWalkExhausted == WalkExhausted("walk")

NextWalk ==
    \/ CallWalkStep
    \/ CallWalkExhausted

SpecWalk == InitWalk /\ [][NextWalk]_vars

(***************************************************************************)
(* Claim C3                                                                *)
(***************************************************************************)
\* The entity Wikidata serves for qid, <<>> when the request fails
Served(qid) ==
    IF wikidata.entities[qid].ok
       /\ qid \in DOMAIN wikidata.entities[qid].data.entities
    THEN <<wikidata.entities[qid].data.entities[qid]>>
    ELSE <<>>

HasRank(entity, rank_qid) ==
    /\ "P105" \in DOMAIN entity.claims
    /\ "datavalue" \in DOMAIN entity.claims.P105[1].mainsnak
    /\ entity.claims.P105[1].mainsnak.datavalue.value.id = rank_qid

HasParent(entity) == "P171" \in DOMAIN entity.claims

ParentOf(entity) == entity.claims.P171[1].mainsnak.datavalue.value.id

\* The first k nodes visited from qid are served, none has the rank and each
\* has a parent.
RECURSIVE NoneOfRank(_, _, _)
NoneOfRank(qid, rank_qid, k) ==
    \/ k = 0
    \/ /\ Served(qid) # <<>>
       /\ ~HasRank(Served(qid)[1], rank_qid)
       /\ HasParent(Served(qid)[1])
       /\ NoneOfRank(ParentOf(Served(qid)[1]), rank_qid, k - 1)

\* The first k nodes visited from qid
RECURSIVE PathFrom(_, _)
PathFrom(qid, k) ==
    IF k = 0 THEN <<>>
    ELSE <<qid>> \o PathFrom(ParentOf(Served(qid)[1]), k - 1)

\* C3: when none of the first 10 nodes visited from the start has the
\* target rank and each has a parent, walk_up_to_rank never sends an 11th
\* entity request, and it returns None having fetched exactly those 10 nodes.
C3_TenFetchesThenNotFound ==
    NoneOfRank(input, walker.target, 10) =>
        /\ Len(calls) <= 10
        /\ pc # "exit"
        /\ pc = "done" =>
             /\ output = Return(None)
             /\ calls = [k \in 1..10 |->
                           EntityRequest(PathFrom(input, 10)[k])]

\* A chain of 11 nodes without the target rank: the walk has returned.
C3_Witness ==
    /\ pc = "done"
    /\ NoneOfRank(input, walker.target, 10)
    /\ DOMAIN wikidata.entities = { Qid(i) : i \in 1..11 }
    /\ PathFrom(input, 10) = [k \in 1..10 |-> Qid(k)]
    /\ Served(Qid(11)) # <<>>
    /\ ~HasParent(Served(Qid(11))[1])
    /\ Len(calls) = 10

\* A cycle: the walk has returned after going round it.
C3_WitnessCycle ==
    /\ pc = "done"
    /\ NoneOfRank(input, walker.target, 10)
    /\ Cardinality(DOMAIN wikidata.entities) = 3
    /\ Len(calls) = 10

(***************************************************************************)
(* Labels and summaries                                                    *)
(***************************************************************************)
\* fetch_wikipedia_summary, given the answer to its request: status 0 is a
\* request that raised (no answer); every RequestException is swallowed.
fetch_wikipedia_summary(response) ==
    IF response.status = 0 THEN <<>>
    ELSE IF response.status = 404 THEN <<>>
    ELSE IF response.status >= 400 THEN <<>>
    ELSE Get(response.json, "extract", <<>>)

\* f"{lang}wiki"
WikiKey(lang) ==
    IF lang = "en" THEN "enwiki" ELSE IF lang = "de" THEN "dewiki" ELSE "frwiki"

\* The title get_lang_name_and_summary settles on
LangTitle(entity, latin, lang) ==
    LET sitelinks == Get(entity, "sitelinks", <<>>)
        labels == Get(entity, "labels", <<>>)
        label == Get(Get(labels, lang, <<>>), "value", None)
    IN  IF WikiKey(lang) \in DOMAIN sitelinks
        THEN sitelinks[WikiKey(lang)].title
        ELSE IF Falsy(label) THEN latin ELSE label

SummaryRequest(title, lang) == [get |-> "summary", lang |-> lang, title |-> title]

get_lang_name_and_summary(entity, latin, lang, response) ==
    [name |-> LangTitle(entity, latin, lang),
     description |-> first_sentences(fetch_wikipedia_summary(response), 2)]

(***************************************************************************)
(* build_payload, run_single, run_batch                                    *)
(***************************************************************************)
SparqlRequest(latin) == [get |-> "sparql", latin |-> latin]

\* The locals of build_payload when it is entered
Enter(latin) ==
    [latin |-> latin, qid |-> None, entity |-> <<>>, genus |-> None,
     family |-> None, english |-> <<>>, german |-> <<>>, french |-> <<>>]

\* The mutant: the QID of any row
FindItemOfAnyRow ==
    /\ pc = "find"
    /\ calls' = Append(calls, SparqlRequest(frame.latin))
    /\ LET response == wikidata.sparql[frame.latin]
       IN  IF ~response.ok \/ response.bindings = <<>>
           THEN /\ Throw(IF response.ok THEN SystemExit ELSE RequestException)
                /\ UNCHANGED frame
           ELSE /\ \E i \in 1..Len(response.bindings) :
                     frame' = [frame EXCEPT
                                 !.qid = LastSegment(response.bindings[i].item)]
                /\ pc' = "fetch"
                /\ UNCHANGED <<output, callerVars>>
    /\ UNCHANGED <<input, wikidata, walker, plateVars, downloadVars, imageVars>>

\* qid = sparql_find_item_by_taxon_name(latin); if not qid: die(...)
FindItem ==
    /\ pc = "find"
    /\ calls' = Append(calls, SparqlRequest(frame.latin))
    /\ LET found == sparql_find_item_by_taxon_name(wikidata.sparql[frame.latin])
       IN  IF found.kind = "raise"
           THEN /\ Throw(found.value)
                /\ UNCHANGED frame
           ELSE IF Falsy(found.value)
           THEN /\ Throw(SystemExit)
                /\ UNCHANGED frame
           ELSE /\ frame' = [frame EXCEPT !.qid = found.value]
                /\ pc' = "fetch"
                /\ UNCHANGED <<output, callerVars>>
    /\ UNCHANGED <<input, wikidata, walker, plateVars, downloadVars, imageVars>>

\* The mutant: the entity comes from a cache, no request is sent
FetchEntityCached ==
    /\ pc = "fetch"
    /\ frame' = [frame EXCEPT !.entity =
                   fetch_entity(wikidata.entities[frame.qid], frame.qid).value]
    /\ walker' = StartWalk(frame.qid, RANK_GENUS)
    /\ pc' = "genus"
    /\ UNCHANGED <<input, output, wikidata, calls, callerVars, plateVars, downloadVars,
                   imageVars>>

\* entity = fetch_entity(qid), then the call of the genus walk
FetchEntity ==
    /\ pc = "fetch"
    /\ calls' = Append(calls, EntityRequest(frame.qid))
    /\ LET fetched == fetch_entity(wikidata.entities[frame.qid], frame.qid)
       IN  IF fetched.kind = "raise"
           THEN /\ Throw(fetched.value)
                /\ UNCHANGED <<frame, walker>>
           ELSE /\ frame' = [frame EXCEPT !.entity = fetched.value]
                /\ walker' = StartWalk(frame.qid, RANK_GENUS)
                /\ pc' = "genus"
                /\ UNCHANGED <<output, callerVars>>
    /\ UNCHANGED <<input, wikidata, plateVars, downloadVars, imageVars>>

GenusStep == WalkStep("genus")

GenusExhausted == WalkExhausted("genus")

FamilyStep == WalkStep("family")

FamilyExhausted == WalkExhausted("family")

\* One entry of the result: get_lang_name_and_summary(entity, latin, lang)
LangEntry(at, lang, next) ==
    /\ pc = at
    /\ calls' = Append(calls, SummaryRequest(
                          LangTitle(frame.entity, frame.latin, lang), lang))
    /\ frame' = [frame EXCEPT ![at] =
                   get_lang_name_and_summary(frame.entity, frame.latin, lang,
                       wikidata.summary[lang])]
    /\ pc' = next
    /\ UNCHANGED <<input, output, wikidata, walker, callerVars, plateVars, downloadVars,
                   imageVars>>

English == LangEntry("english", "en", "german")

German == LangEntry("german", "de", "french")

French == LangEntry("french", "fr", "result")

\* The dict build_payload returns, with its keys in insertion order
Payload(locals) ==
    [keys |-> <<"english", "german", "french", "latin", "family", "genus">>,
     english |-> locals.english,
     german |-> locals.german,
     french |-> locals.french,
     latin |-> locals.latin,
     family |-> IF Falsy(locals.family) THEN <<>> ELSE locals.family,
     genus |-> IF Falsy(locals.genus) THEN <<>> ELSE locals.genus]

\* return result: run_batch appends it to results; run_single appends it to
\* the array of the target file and writes the file.
ReturnPayload ==
    /\ pc = "result"
    /\ IF mode = "batch"
       THEN /\ results' = Append(results, Payload(frame))
            /\ names' = Tail(names)
            /\ pc' = "loop"
            /\ UNCHANGED <<output, target_file>>
       ELSE /\ target_file' = Append(target_file, Payload(frame))
            /\ output' = Return(None)
            /\ pc' = "done"
            /\ UNCHANGED <<names, results>>
    /\ UNCHANGED <<input, wikidata, walker, calls, frame, mode, failures,
                   plateVars, downloadVars, imageVars>>

\* The names gather_hartinger_latin_names collects from the entries
RECURSIVE CollectNames(_, _)
CollectNames(raw_entries, collected) ==
    IF raw_entries = <<>> THEN collected
    ELSE LET entry == Head(raw_entries)
             latin == IF entry.type = "object"
                      THEN Get(entry.fields, "latin_name", None)
                      ELSE None
             seen == { collected[k] : k \in 1..Len(collected) }
         IN  IF Falsy(latin) \/ Strip(latin) = <<>> \/ Strip(latin) \in seen
             THEN CollectNames(Tail(raw_entries), collected)
             ELSE CollectNames(Tail(raw_entries),
                               Append(collected, Strip(latin)))

\* The mutant: a seed file that cannot be used is replaced by a default name
gather_or_default(file) ==
    IF file.exists /\ file.wellformed /\ file.json.type = "array"
       /\ CollectNames(file.json.items, <<>>) # <<>>
    THEN Return(CollectNames(file.json.items, <<>>))
    ELSE Return(<< <<"Gentiana", " ", "verna">> >>)

\* gather_hartinger_latin_names, given the seed file
gather_hartinger_latin_names(file) ==
    IF ~file.exists THEN Raise(SystemExit)
    ELSE IF ~file.wellformed THEN Raise(SystemExit)
    ELSE IF file.json.type # "array" THEN Raise(SystemExit)
    ELSE IF CollectNames(file.json.items, <<>>) = <<>> THEN Raise(SystemExit)
    ELSE Return(CollectNames(file.json.items, <<>>))

\* latin_names = gather_hartinger_latin_names(HARTINGER_JSON)
GatherNames ==
    /\ pc = "gather"
    /\ LET gathered == gather_hartinger_latin_names(input)
       IN  IF gathered.kind = "raise"
           THEN /\ output' = Raise(gathered.value)
                /\ pc' = "exit"
                /\ UNCHANGED names
           ELSE /\ names' = gathered.value
                /\ pc' = "loop"
                /\ UNCHANGED output
    /\ UNCHANGED <<input, wikidata, walker, calls, frame, mode, results,
                   failures, target_file, plateVars, downloadVars, imageVars>>

\* for latin in latin_names: payload = build_payload(latin)
NextName ==
    /\ pc = "loop"
    /\ names # <<>>
    /\ frame' = Enter(Head(names))
    /\ calls' = <<>>
    /\ pc' = "find"
    /\ UNCHANGED <<input, output, wikidata, walker, callerVars, plateVars, downloadVars,
                   imageVars>>

\* After the loop: die without results, otherwise write them
WriteBatch ==
    /\ pc = "loop"
    /\ names = <<>>
    /\ IF results = <<>>
       THEN /\ output' = Raise(SystemExit)
            /\ pc' = "exit"
            /\ UNCHANGED target_file
       ELSE /\ target_file' = results
            /\ output' = Return(None)
            /\ pc' = "done"
    /\ UNCHANGED <<input, wikidata, walker, calls, frame, mode, names, results,
                   failures, plateVars, downloadVars, imageVars>>

\* How often the script is run on a name
MaxRuns == 2

\* The script is run once more on the same name (single mode).
RunAgain ==
    /\ pc = "done"
    /\ mode = "single"
    /\ Len(target_file) < MaxRuns
    /\ frame' = Enter(input)
    /\ calls' = <<>>
    /\ output' = NotCalled
    /\ pc' = "find"
    /\ UNCHANGED <<input, wikidata, walker, callerVars, plateVars, downloadVars, imageVars>>

(***************************************************************************)
(* Bounds of the taxon check: a small Wikidata                             *)
(***************************************************************************)
LatinKnown == <<"Gentiana", " ", "verna">>

LatinUnknown == <<"Nomen", " ", "nescio">>

LatinOther == <<"Gentiana", " ", "acaulis">>

Species == Qid(1)

Homonym == Qid(2)

Genus == Qid(3)

Family == Qid(4)

Other == Qid(15)

\* The species: a German Wikipedia page, an English label, nothing French
SpeciesEntity ==
    [id |-> Species,
     claims |-> Claims(<<ItemClaim(RANK_SPECIES)>>, <<ItemClaim(Genus)>>,
                       <<StringClaim(LatinKnown)>>),
     labels |-> [en |-> [language |-> "en", value |-> <<"spring gentian">>]],
     sitelinks |-> [dewiki |-> [site |-> "dewiki",
                                title |-> <<"Frühlings-Enzian">>]]]

Taxonomy ==
    (Species :> SpeciesEntity)
    @@ (Homonym :> Entity(Homonym, Claims(<<>>, <<>>, <<StringClaim(LatinKnown)>>)))
    @@ (Genus :> Entity(Genus, Claims(<<ItemClaim(RANK_GENUS)>>,
                                       <<ItemClaim(Family)>>,
                                       <<StringClaim(<<"Gentiana">>)>>)))
    @@ (Family :> Entity(Family, Claims(<<ItemClaim(RANK_FAMILY)>>, <<>>,
                                         <<StringClaim(<<"Gentianaceae">>)>>)))
    @@ (Other :> Entity(Other, Claims(<<ItemClaim(RANK_SPECIES)>>,
                                       <<ItemClaim(Genus)>>,
                                       <<StringClaim(LatinOther)>>)))

\* The clades between the genus and the family
Clades == 9

Clade(i) == Qid(4 + i)

\* The same taxa with Clades unranked clades between genus and family, the
\* homonym a member of the first: the family is more than 10 nodes away.
DeepTaxonomy ==
    (Species :> SpeciesEntity)
    @@ (Homonym :> Entity(Homonym, Claims(<<>>, <<ItemClaim(Clade(1))>>,
                                           <<StringClaim(LatinKnown)>>)))
    @@ (Genus :> Entity(Genus, Claims(<<ItemClaim(RANK_GENUS)>>,
                                       <<ItemClaim(Clade(1))>>,
                                       <<StringClaim(<<"Gentiana">>)>>)))
    @@ [q \in { Clade(i) : i \in 1..Clades } |->
          LET i == CHOOSE k \in 1..Clades : Clade(k) = q
          IN  Entity(q, Claims(<<>>,
                               <<ItemClaim(IF i < Clades THEN Clade(i + 1)
                                           ELSE Family)>>,
                               <<StringClaim(TaxonName(i))>>))]
    @@ (Family :> Taxonomy[Family])
    @@ (Other :> Taxonomy[Other])

\* Every entity is served, but for at most one
EntityAnswers ==
    { [q \in DOMAIN taxa |->
         EntityAnswer(q, taxa[q], IF q = bad[1] THEN bad[2] ELSE "entity")] :
      taxa \in {Taxonomy, DeepTaxonomy},
      bad \in { <<None, "entity">>, <<Species, "error">>,
                <<Species, "redirect">>, <<Genus, "error">>,
                <<Family, "error">> } }

Row(qid, rank_qid) ==
    [item |-> EntityUri(qid),
     rank |-> IF rank_qid = None THEN None ELSE EntityUri(rank_qid)]

SparqlAnswers ==
    { [name \in {LatinKnown, LatinUnknown, LatinOther} |->
         IF name = LatinKnown THEN known
         ELSE IF name = LatinOther
              THEN [ok |-> TRUE, bindings |-> <<Row(Other, RANK_SPECIES)>>]
              ELSE [ok |-> TRUE, bindings |-> <<>>]] :
      known \in { [ok |-> TRUE, bindings |-> <<Row(Species, RANK_SPECIES)>>],
                  [ok |-> TRUE, bindings |-> <<Row(Homonym, None),
                                               Row(Species, RANK_SPECIES)>>],
                  [ok |-> TRUE, bindings |-> <<Row(Homonym, None)>>],
                  [ok |-> FALSE, bindings |-> <<>>] } }

\* The answers to a summary request: an extract, a page without one, no
\* page, a server error, no answer
PageAnswers ==
    { [status |-> 200, json |-> [extract |-> ExampleText]],
      [status |-> 200, json |-> [title |-> <<"Not found.">>]],
      [status |-> 404],
      [status |-> 500],
      [status |-> 0] }

\* Every language has an extract, but perhaps for German
SummaryAnswers ==
    { [lang \in {"en", "de", "fr"} |->
         IF lang = bad[1] THEN bad[2]
         ELSE [status |-> 200, json |-> [extract |-> ExampleText]]] :
      bad \in {"none", "de"} \X PageAnswers }

\* The seed names of a batch: distinct, at least one
Seeds ==
    { <<LatinKnown>>, <<LatinUnknown>>, <<LatinKnown, LatinUnknown>>,
      <<LatinUnknown, LatinKnown>>, <<LatinOther, LatinKnown>>,
      <<LatinKnown, LatinOther>> }

\* An entry of the seed file with that latin_name
PlateRecord(latin) ==
    [type |-> "object", fields |-> [title |-> <<"File:">>, latin_name |-> latin]]

JsonArray(items) == [type |-> "array", items |-> items]

SeedFile(json) == [exists |-> TRUE, wellformed |-> TRUE, json |-> json]

\* Seed files with usable names: the names one entry each, or among entries
\* that are skipped
GoodSeedFiles ==
    { SeedFile(JsonArray([k \in 1..Len(seed) |-> PlateRecord(seed[k])])) :
      seed \in Seeds }
    \cup { SeedFile(JsonArray(<< [type |-> "string"],
                                 PlateRecord(<<" ">> \o LatinKnown \o <<"\n">>),
                                 [type |-> "object", fields |-> [title |-> <<"File:">>]],
                                 PlateRecord(LatinKnown),
                                 PlateRecord(None),
                                 PlateRecord(LatinUnknown) >>)) }

\* Seed files without: missing, not JSON, not an array, no usable name
BadSeedFiles ==
    { [exists |-> FALSE],
      [exists |-> TRUE, wellformed |-> FALSE],
      SeedFile([type |-> "object", fields |-> [latin_name |-> LatinKnown]]),
      SeedFile(JsonArray(<<>>)),
      SeedFile(JsonArray(<< [type |-> "string"], [type |-> "number"] >>)),
      SeedFile(JsonArray(<< [type |-> "object", fields |-> [title |-> <<"File:">>]] >>)),
      SeedFile(JsonArray(<< PlateRecord(<<>>), PlateRecord(None) >>)),
      SeedFile(JsonArray(<< PlateRecord(<<" ", "\t">>) >>)) }

InitTaxon ==
    /\ wikidata \in { [sparql |-> sp, entities |-> en, summary |-> su] :
                      sp \in SparqlAnswers, en \in EntityAnswers,
                      su \in SummaryAnswers }
    /\ walker = <<>>
    /\ calls = <<>>
    /\ output = NotCalled
    /\ results = <<>>
    /\ failures = 0
    /\ target_file = <<>>
    /\ \/ /\ mode = "single"
          /\ input \in {LatinKnown, LatinUnknown, LatinOther}
          /\ names = <<input>>
          /\ frame = Enter(input)
          /\ pc = "find"
       \/ /\ mode = "batch"
          /\ input \in GoodSeedFiles \cup BadSeedFiles
          /\ names = <<>>
          /\ frame = <<>>
          /\ pc = "gather"
    /\ PlateIdle
    /\ DownloadIdle
    /\ ImageIdle

NextTaxon ==
    \/ FindItem
    \/ FetchEntity
    \/ GenusStep
    \/ GenusExhausted
    \/ FamilyStep
    \/ FamilyExhausted
    \/ English
    \/ German
    \/ French
    \/ ReturnPayload
    \/ GatherNames
    \/ NextName
    \/ WriteBatch
    \/ RunAgain

SpecTaxon == InitTaxon /\ [][NextTaxon]_vars

(***************************************************************************)
(* Claims C1 and C5                                                        *)
(***************************************************************************)
\* The lookup of that name is answered, with no row.
NoMatch(latin) ==
    /\ wikidata.sparql[latin].ok
    /\ wikidata.sparql[latin].bindings = <<>>

\* C1 as claimed: for a Latin name without matching entity, build_payload
\* raises no process-terminating exit and the caller goes on.
C1_NoMatchNeverExits_AsClaimed ==
    [][ (pc = "find" /\ NoMatch(frame.latin)) =>
            (pc' # "exit" /\ output' # Raise(SystemExit)) ]_vars

\* C1: for a Latin name without matching entity, build_payload produces no
\* record and raises SystemExit; run_batch catches it, counts the name as
\* failed and goes on with the next name, while a single run ends there with
\* the target file as it was.
C1_NoMatchIsSystemExit ==
    [][ (pc = "find" /\ NoMatch(frame.latin)) =>
            /\ results' = results
            /\ target_file' = target_file
            /\ IF mode = "batch"
               THEN /\ failures' = failures + 1
                    /\ names' = Tail(names)
                    /\ pc' = "loop"
                    /\ output' = NotCalled
               ELSE /\ pc' = "exit"
                    /\ output' = Raise(SystemExit) ]_vars

\* A batch of two names: one had no match and was counted, the other was
\* resolved and written.
C1_Witness ==
    /\ mode = "batch"
    /\ pc = "done"
    /\ failures = 1
    /\ NoMatch(LatinUnknown)
    /\ Len(target_file) = 1
    /\ target_file[1].latin = LatinKnown

Languages == {"en", "de", "fr"}

LinkedTitle == <<"Frühlings-Enzian">>

LabelText == <<"spring gentian">>

\* sitelinks of an entity for a language: none, one of another wiki only, one
\* with an empty title, one with a title
SiteLinks(lang) ==
    { <<>>,
      [commonswiki |-> [site |-> "commonswiki", title |-> LinkedTitle]],
      [w \in {WikiKey(lang)} |-> [site |-> w, title |-> <<>>]],
      [w \in {WikiKey(lang)} |-> [site |-> w, title |-> LinkedTitle]] }

\* labels of an entity for a language: none, one without value, one with an
\* empty value, one with a value
Labels(lang) ==
    { <<>>,
      [l \in {lang} |-> [language |-> lang]],
      [l \in {lang} |-> [language |-> lang, value |-> <<>>]],
      [l \in {lang} |-> [language |-> lang, value |-> LabelText]] }

\* An entity with those sitelinks and labels, the keys left out when empty
LabelledEntity(sitelinks, labels) ==
    [key \in {"id"} \cup { k \in {"sitelinks"} : sitelinks # <<>> }
                    \cup { k \in {"labels"} : labels # <<>> } |->
        IF key = "id" THEN Qid(1)
        ELSE IF key = "sitelinks" THEN sitelinks ELSE labels]

LangCalls ==
    { [entity |-> LabelledEntity(sitelinks, labels), latin |-> latin,
       lang |-> lang, response |-> response] :
        lang \in Languages, latin \in {LatinKnown, LatinUnknown},
        response \in PageAnswers,
        sitelinks \in UNION { SiteLinks(l) : l \in Languages },
        labels \in UNION { Labels(l) : l \in Languages } }

InitLang ==
    /\ pc = "lang"
    /\ input \in LangCalls
    /\ output = NotCalled
    /\ TaxonIdle
    /\ PlateIdle
    /\ DownloadIdle
    /\ ImageIdle

CallLangEntry ==
    /\ pc = "lang"
    /\ calls' = Append(calls, SummaryRequest(
                    LangTitle(input.entity, input.latin, input.lang), input.lang))
    /\ output' = Return(get_lang_name_and_summary(
                    input.entity, input.latin, input.lang, input.response))
    /\ pc' = "done"
    /\ UNCHANGED <<input, wikidata, walker, batchVars, plateVars, downloadVars, imageVars>>

NextLang == CallLangEntry

SpecLang == InitLang /\ [][NextLang]_vars

(***************************************************************************)
(* Claims C11 and C12                                                      *)
(***************************************************************************)
\* The sitelink title of the call's language, <<>> when missing
GivenSitelinkTitle ==
    IF "sitelinks" \in DOMAIN input.entity
       /\ WikiKey(input.lang) \in DOMAIN input.entity.sitelinks
    THEN input.entity.sitelinks[WikiKey(input.lang)].title
    ELSE <<>>

\* The label of the call's language, <<>> when missing
GivenLabel ==
    IF "labels" \in DOMAIN input.entity
       /\ input.lang \in DOMAIN input.entity.labels
       /\ "value" \in DOMAIN input.entity.labels[input.lang]
    THEN input.entity.labels[input.lang].value
    ELSE <<>>

\* C11: the display name get_lang_name_and_summary returns is never empty;
\* with sitelink title and label empty or missing it is the Latin query
\* string.
C11_NameNeverEmpty ==
    pc = "done" =>
        /\ output.value.name # <<>>
        /\ (GivenSitelinkTitle = <<>> /\ GivenLabel = <<>>)
               => output.value.name = input.latin

\* C12: the title is the sitelink title if there is one, otherwise the label
\* if there is one, otherwise the Latin query string, and the summary is
\* requested for that title.
C12_TitleOrder ==
    pc = "done" =>
        /\ output.value.name =
             IF GivenSitelinkTitle # <<>> THEN GivenSitelinkTitle
             ELSE IF GivenLabel # <<>> THEN GivenLabel
             ELSE input.latin
        /\ calls = <<SummaryRequest(output.value.name, input.lang)>>

(***************************************************************************)
(* Claim C13                                                               *)
(***************************************************************************)
\* How often the entity qid has been requested
Fetches(qid) ==
    Cardinality({ k \in 1..Len(calls) : calls[k] = EntityRequest(qid) })

IsEntityRequest(call) == call.get = "entity"

\* C13 as claimed: when build_payload is about to return its record, the
\* winning entity has been requested exactly once.
C13_WinnerFetchedOnce_AsClaimed ==
    pc = "result" => Fetches(frame.qid) = 1

\* C13: when build_payload is about to return its record, the winning entity
\* has been requested three times (no parent chain leads back to it): by
\* build_payload itself, right after the lookup, and as the first request of
\* the genus walk; the third is the family walk's first. The three label
\* resolutions, the last three requests, fetch no entity.
C13_WinnerFetchedThrice ==
    pc = "result" =>
        /\ Fetches(frame.qid) = 3
        /\ calls[2] = EntityRequest(frame.qid)
        /\ calls[3] = EntityRequest(frame.qid)
        /\ \A k \in (Len(calls) - 2)..Len(calls) : ~IsEntityRequest(calls[k])

\* The species resolved, genus and family found
C13_Witness ==
    /\ pc = "result"
    /\ frame.qid = Species
    /\ frame.genus = <<"Gentiana">>
    /\ frame.family = <<"Gentianaceae">>
    /\ Fetches(Species) = 3

(***************************************************************************)
(* Claims C14, C15 and C16                                                 *)
(***************************************************************************)
\* An entry that gives a name: an object whose latin_name is a string with
\* more than whitespace
UsableEntry(entry) ==
    /\ entry.type = "object"
    /\ "latin_name" \in DOMAIN entry.fields
    /\ entry.fields.latin_name # None
    /\ \E i \in 1..Len(entry.fields.latin_name) :
         ~IsSpace(entry.fields.latin_name[i])

\* The seed file is missing, is not JSON, is not an array or has no usable
\* latin_name.
UnusableSeed(file) ==
    \/ ~file.exists
    \/ ~file.wellformed
    \/ file.json.type # "array"
    \/ \A k \in 1..Len(file.json.items) : ~UsableEntry(file.json.items[k])

\* The names of the seed file
SeedNames == CollectNames(input.json.items, <<>>)

\* C14: a batch run ends before the end of its seed list for no failure of
\* a name's resolution: when it has ended, every seed name was attempted and
\* is either resolved or counted as failed.
C14_BatchFailureIsolated ==
    (mode = "batch" /\ pc \in {"done", "exit"} /\ ~UnusableSeed(input)) =>
        /\ names = <<>>
        /\ Len(results) + failures = Len(SeedNames)

\* The latin names of the records, in order
LatinsOf(records) == [k \in 1..Len(records) |-> records[k].latin]

\* seq keeps the order its elements have in the sequence of distinct names
InOrderOf(seq, ordered) ==
    \A i, j \in 1..Len(seq) :
        i < j => \E a, b \in 1..Len(ordered) :
                    a < b /\ ordered[a] = seq[i] /\ ordered[b] = seq[j]

\* C15: in a batch run, resolved plus failed names are the names processed
\* so far, and a run in which a name resolved ends with exactly the resolved
\* records written, in seed order, every other seed name counted as failed.
C15_BatchWritesResolved ==
    mode = "batch" =>
        /\ pc = "loop" =>
             Len(results) + failures = Len(SeedNames) - Len(names)
        /\ (pc \in {"done", "exit"} /\ results # <<>>) =>
             /\ target_file = results
             /\ InOrderOf(LatinsOf(target_file), SeedNames)
             /\ failures = Len(SeedNames) - Len(target_file)

\* C16: a batch run whose seed file is missing, not JSON, not an array or
\* without usable latin_name sends no request: it is at its start or has
\* ended by SystemExit, with nothing written.
C16_BadSeedNoRemoteCall ==
    (mode = "batch" /\ UnusableSeed(input)) =>
        /\ calls = <<>>
        /\ pc \in {"gather", "exit"}
        /\ pc = "exit" => (output = Raise(SystemExit) /\ target_file = <<>>)

\* A seed file whose only latin_name is whitespace: the run has ended.
C16_Witness ==
    /\ mode = "batch"
    /\ pc = "exit"
    /\ input.exists
    /\ input.wellformed
    /\ input.json.type = "array"
    /\ Len(input.json.items) = 1
    /\ UnusableSeed(input)
    /\ "latin_name" \in DOMAIN input.json.items[1].fields
    /\ input.json.items[1].fields.latin_name = <<" ", "\t">>
    /\ calls = <<>>

(***************************************************************************)
(* Claim C17                                                               *)
(***************************************************************************)
\* The request is answered by a network failure or an HTTP error that is not
\* the not-found of a summary.
Failed(call) ==
    IF call.get = "sparql" THEN ~wikidata.sparql[call.latin].ok
    ELSE IF call.get = "entity" THEN ~wikidata.entities[call.qid].ok
    ELSE \/ wikidata.summary[call.lang].status = 0
         \/ /\ wikidata.summary[call.lang].status >= 400
            /\ wikidata.summary[call.lang].status # 404

\* The request the step at pc is about to send, <<>> when it sends none
NextCall ==
    IF pc = "find" THEN <<SparqlRequest(frame.latin)>>
    ELSE IF pc = "fetch" THEN <<EntityRequest(frame.qid)>>
    ELSE IF pc \in {"genus", "family"} /\ walker.steps < 10
         THEN <<EntityRequest(walker.qid)>>
    ELSE <<>>

\* The entry of the record for a language
EntryOf(locals, lang) ==
    IF lang = "en" THEN locals.english
    ELSE IF lang = "de" THEN locals.german ELSE locals.french

\* C17 as claimed: a record is assembled only when no request of the
\* resolution has failed.
C17_AnyFailurePropagates_AsClaimed ==
    pc = "result" => \A k \in 1..Len(calls) : ~Failed(calls[k])

\* C17: a failed candidate query or entity fetch (build_payload's own or a
\* rank walk's) leaves build_payload as RequestException, with no record: a
\* batch counts the name as failed and goes on, a single run ends there. A
\* failed summary request does not: the description is empty and the record
\* is assembled.
C17_FailurePropagatesButSummary ==
    [][ /\ (NextCall # <<>> /\ Failed(NextCall[1])) =>
              /\ results' = results
              /\ target_file' = target_file
              /\ IF mode = "batch"
                 THEN failures' = failures + 1 /\ pc' = "loop"
                 ELSE pc' = "exit" /\ output' = Raise(RequestException)
        /\ pc' = "result" =>
              \A k \in 1..Len(calls') :
                  Failed(calls'[k]) =>
                      /\ calls'[k].get = "summary"
                      /\ EntryOf(frame', calls'[k].lang).description = <<>> ]_vars

\* The request for the genus, in the genus walk of a single run, failed: the
\* run has ended by RequestException.
C17_Witness ==
    /\ mode = "single"
    /\ pc = "exit"
    /\ output = Raise(RequestException)
    /\ walker # <<>>
    /\ walker.qid = Genus
    /\ walker.target = RANK_GENUS
    /\ Failed(EntityRequest(Genus))
    /\ target_file = <<>>


(***************************************************************************)
(* hartinger_download_images: main                                         *)
(***************************************************************************)
\* fetch_imageinfo: raise_for_status(), then the pages of the answer by
\* their title, a later page replacing an earlier one of the same title
fetch_imageinfo(response) ==
    IF response.status = 0 \/ response.status >= 400
    THEN Raise(RequestException)
    ELSE LET pages == response.pages
             TitleOf(page) == Get(page, "title", <<>>)
             last(title) ==
                 CHOOSE k \in 1..Len(pages) :
                     /\ TitleOf(pages[k]) = title
                     /\ \A j \in (k + 1)..Len(pages) : TitleOf(pages[j]) # title
         IN Return([title \in { TitleOf(pages[k]) : k \in 1..Len(pages) }
                      |-> pages[last(title)]])

\* sanitize_name
sanitize_name(name) ==
    LET replaced == ReplaceChar(Strip(name), "_", " ")
        allowed(c) == IsWordChar(c) \/ IsSpace(c) \/ c = "-"
        cleaned == Strip(CollapseSpaces(SelectSeq(replaced, allowed), 1))
    IN IF cleaned = <<>> THEN <<"i", "m", "a", "g", "e">> ELSE cleaned

\* title_basename
title_basename(title) == BeforeLast(AfterFirst(title, ":"), ".")

\* Path(path).name
PathName(path) == SubSeq(path, LastIndexOf(path, "/", Len(path)) + 1, Len(path))

\* Path.suffix: from the last dot of the name on, when that dot is neither
\* the first nor the last character of the name
PathSuffix(path) ==
    LET name == PathName(path)
        dot == LastIndexOf(name, ".", Len(name))
    IN IF 1 < dot /\ dot < Len(name) THEN SubSeq(name, dot, Len(name)) ELSE <<>>

\* Path.stem
PathStem(path) ==
    LET name == PathName(path)
    IN SubSeq(name, 1, Len(name) - Len(PathSuffix(path)))

\* ensure_unique: the loop from idx on; the directory is finite
RECURSIVE UniqueFrom(_, _, _, _)
UniqueFrom(stem, suffix, idx, dir) ==
    LET candidate == stem \o <<"_", Digits[idx]>> \o suffix
    IN IF candidate \notin dir THEN candidate
       ELSE UniqueFrom(stem, suffix, idx + 1, dir)

\* ensure_unique(output_dir / path), as a name in the directory dir
ensure_unique(path, dir) ==
    IF path \notin dir THEN path
    ELSE UniqueFrom(PathStem(path), PathSuffix(path), 2, dir)

\* The url of the loop body for an entry, None where the body continues
\* before it has one
EntryUrl(entry) ==
    LET title == Get(entry, "title", None)
    IN IF Falsy(title) \/ HasDigit(title) THEN None
       ELSE IF title \notin DOMAIN metadata THEN None
       ELSE LET info == Get(metadata[title], "imageinfo", <<>>)
            IN IF info = <<>> THEN None
               ELSE IF Falsy(Get(info[1], "url", None)) THEN None
               ELSE info[1].url

\* f"{slug}{ext}": the target file name before ensure_unique
TargetName(entry) ==
    LET given == Get(entry, "latin_name", None)
        latin_name == IF Falsy(given) THEN title_basename(entry.title) ELSE given
        ext == IF PathSuffix(EntryUrl(entry)) = <<>>
               THEN <<".", "j", "p", "g">>
               ELSE PathSuffix(EntryUrl(entry))
    IN sanitize_name(latin_name) \o ext

ValueError == <<"ValueError">>

\* main up to the loop: load_entries, titles, fetch_imageinfo
StartDownload ==
    /\ pc = "start"
    /\ IF input.source.type # "array"
       THEN /\ output' = Raise(ValueError)
            /\ pc' = "exit"
            /\ UNCHANGED <<entries, metadata>>
       ELSE LET loaded == input.source.items
                titles == SelectSeq(loaded,
                              LAMBDA entry : ~Falsy(Get(entry, "title", None)))
            IN /\ entries' = loaded
               /\ IF titles = <<>>
                  THEN /\ output' = Return(None)
                       /\ pc' = "done"
                       /\ UNCHANGED metadata
                  ELSE IF fetch_imageinfo(input.commons).kind = "raise"
                  THEN /\ output' = fetch_imageinfo(input.commons)
                       /\ pc' = "exit"
                       /\ UNCHANGED metadata
                  ELSE /\ metadata' = fetch_imageinfo(input.commons).value
                       /\ pc' = "loop"
                       /\ UNCHANGED output
    /\ UNCHANGED <<input, category, files, fileIdx, seen_titles, imageVars,
                   taxonVars, downloadVars>>

\* What download_file can do: write the whole file, fail before the file is
\* opened, fail while the body is read
Downloads == {"written", "refused", "broken"}

\* One iteration of the loop over the entries
DownloadEntry ==
    /\ pc = "loop"
    /\ entries # <<>>
    /\ LET entry == Head(entries)
       IN IF Falsy(EntryUrl(entry))
          THEN UNCHANGED <<output_dir, saved, skipped>>
          ELSE LET target_path == ensure_unique(TargetName(entry), output_dir)
               IN IF args.skip_existing /\ target_path \in output_dir
                  THEN /\ skipped' = skipped + 1
                       /\ UNCHANGED <<output_dir, saved>>
                  ELSE \E download \in Downloads :
                          /\ output_dir' = IF download = "refused"
                                           THEN output_dir
                                           ELSE output_dir \cup {target_path}
                          /\ saved' = IF download = "written"
                                      THEN saved + 1 ELSE saved
                          /\ UNCHANGED skipped
    /\ entries' = Tail(entries)
    /\ UNCHANGED <<pc, input, output, category, files, metadata, fileIdx,
                   seen_titles, imageVars, taxonVars, args>>

\* The end of main: "Completed: {saved} downloaded, {skipped} skipped."
Completed ==
    /\ pc = "loop"
    /\ entries = <<>>
    /\ output' = Return([saved |-> saved, skipped |-> skipped])
    /\ pc' = "done"
    /\ UNCHANGED <<input, plateVars, imageVars, taxonVars, downloadVars>>

MaxEntries == 2

GentianaVernaJpg ==
    <<"G", "e", "n", "t", "i", "a", "n", "a", " ", "v", "e", "r", "n",
        "a", ".", "j", "p", "g">>

GentianaVerna2Jpg ==
    <<"G", "e", "n", "t", "i", "a", "n", "a", " ", "v", "e", "r", "n",
        "a", "_", "2", ".", "j", "p", "g">>

\* The entries of the source: two of one slug, one named by its title, and
\* those the loop passes over
DownloadEntries ==
    { [title |-> <<"F", "i", "l", "e", ":", "G", "e", "n", "t", "i", "a", "n", "a",
        " ", "v", "e", "r", "n", "a", ".", "j", "p", "g">>,
       latin_name |-> GentianaVerna],
      [title |-> <<"F", "i", "l", "e", ":", "G", ".", " ", "v", "e", "r", "n", "a",
        ".", "j", "p", "g">>,
       latin_name |-> <<" ", "G", "e", "n", "t", "i", "a", "n", "a", "_", "v", "e", "r",
        "n", "a", "!", " ">>],
      [title |-> <<"F", "i", "l", "e", ":", "C", "r", "o", "c", "u", "s", ".", "p",
        "n", "g">>],
      [title |-> <<"F", "i", "l", "e", ":", "S", "i", "l", "e", "n", "e", ".", "j",
        "p", "g">>,
       latin_name |-> <<"S", "i", "l", "e", "n", "e">>],
      [title |-> <<"F", "i", "l", "e", ":", "P", "r", "i", "m", "u", "l", "a", ".",
        "j", "p", "g">>,
       latin_name |-> <<"P", "r", "i", "m", "u", "l", "a">>],
      [title |-> TitleNumbered, latin_name |-> GentianaVerna],
      [title |-> <<"F", "i", "l", "e", ":", "A", "r", "n", "i", "c", "a", ".", "j",
        "p", "g">>,
       latin_name |-> <<"A", "r", "n", "i", "c", "a">>],
      [latin_name |-> GentianaVerna] }

CommonsPages ==
    << [title |-> <<"F", "i", "l", "e", ":", "G", "e", "n", "t", "i", "a", "n", "a",
        " ", "v", "e", "r", "n", "a", ".", "j", "p", "g">>,
        imageinfo |-> <<[url |-> <<"/", "c", "/", "G", "e", "n", "t", "i", "a", "n", "a", "_", "v",
        "e", "r", "n", "a", ".", "j", "p", "g">>]>>],
       [title |-> <<"F", "i", "l", "e", ":", "G", ".", " ", "v", "e", "r", "n", "a",
        ".", "j", "p", "g">>,
        imageinfo |-> <<[url |-> <<"/", "c", "/", "G", ".", "_", "v", "e", "r", "n", "a", ".", "j",
        "p", "g">>]>>],
       [title |-> <<"F", "i", "l", "e", ":", "C", "r", "o", "c", "u", "s", ".", "p",
        "n", "g">>,
        imageinfo |-> <<[url |-> <<"/", "c", ".", "d", "/", "C", "r", "o", "c", "u", "s">>]>>],
       [title |-> <<"F", "i", "l", "e", ":", "S", "i", "l", "e", "n", "e", ".", "j",
        "p", "g">>,
        imageinfo |-> <<>>],
       [title |-> <<"F", "i", "l", "e", ":", "P", "r", "i", "m", "u", "l", "a", ".",
        "j", "p", "g">>,
        imageinfo |-> <<[width |-> 800]>>],
       [title |-> TitleNumbered,
        imageinfo |-> <<[url |-> <<"/", "c", "/", "G", "e", "n", "t", "i", "a", "n", "a", "_", "v",
        "e", "r", "n", "a", ".", "j", "p", "g">>]>>] >>

CommonsAnswers ==
    { [status |-> 200, pages |-> CommonsPages], [status |-> 503, pages |-> <<>>] }

Sources ==
    { JsonArray(list) : list \in TextsUpTo(DownloadEntries, MaxEntries) }
    \cup { [type |-> "object", items |-> <<>>] }

InitDownload ==
    /\ pc = "start"
    /\ input \in [source : Sources, commons : CommonsAnswers]
    /\ output = NotCalled
    /\ args \in [skip_existing : BOOLEAN]
    /\ output_dir \in SUBSET {GentianaVernaJpg, GentianaVerna2Jpg}
    /\ saved = 0
    /\ skipped = 0
    /\ PlateIdle
    /\ ImageIdle
    /\ TaxonIdle

NextDownload ==
    \/ StartDownload
    \/ DownloadEntry
    \/ Completed

SpecDownload == InitDownload /\ [][NextDownload]_vars

\* The loop is about to handle an entry that has a url and whose target file
\* name is in the output directory
TargetExists ==
    /\ pc = "loop"
    /\ entries # <<>>
    /\ ~Falsy(EntryUrl(Head(entries)))
    /\ TargetName(Head(entries)) \in output_dir

\* C18: with --skip-existing an entry whose target file name
\* (output_dir/<slug><ext>) exists already is not downloaded and is counted
\* as skipped, and no file is created for it.
C18_ExistingTargetSkipped ==
    [][ (TargetExists /\ args.skip_existing)
        => /\ skipped' = skipped + 1
           /\ saved' = saved
           /\ output_dir' = output_dir ]_vars


(***************************************************************************)
(* Claim C19                                                               *)
(***************************************************************************)
\* The titles of the hits the repository's search answer lists, by rank
RankedHits ==
    LET search == IF "query" \in DOMAIN repo.search
                  THEN repo.search.query.search ELSE <<>>
        titled == SelectSeq(search, LAMBDA hit : "title" \in DOMAIN hit)
    IN [i \in 1..Len(titled) |-> titled[i].title]

\* The index in requests of the search request, 0 before it is sent
SearchAt ==
    IF SearchSent
    THEN CHOOSE k \in 1..Len(requests) : IsSearch(requests[k])
    ELSE 0

\* The number of lookups made after the search request
HitLookups == Len(requests) - SearchAt

\* C19: once the search is sent, the lookups that follow it are those of
\* the hits, one by one in rank order, each made only after every hit before
\* it failed to resolve; the info returned is that of the first hit that
\* resolves, which is the last one looked up; and None is returned only
\* when every hit has been looked up and none resolved.
C19_HitsInRankOrder ==
    SearchSent =>
        /\ HitLookups <= Len(RankedHits)
        /\ \A i \in 1..HitLookups :
              /\ requests[SearchAt + i] = InfoRequest(RankedHits[i])
              /\ \A j \in 1..(i - 1) : ~Resolves(RankedHits[j])
        /\ (output.kind = "return" /\ output.value # None) =>
              /\ HitLookups >= 1
              /\ Resolves(RankedHits[HitLookups])
              /\ output.value = ImageInfo(RankedHits[HitLookups])
        /\ (output.kind = "return" /\ output.value = None) =>
              /\ HitLookups = Len(RankedHits)
              /\ \A i \in 1..Len(RankedHits) : ~Resolves(RankedHits[i])

\* Two hits that both carry image info, the better ranked without a page
\* fault: its info is returned and the second hit is never looked up.
C19_Witness ==
    /\ SearchSent
    /\ Len(RankedHits) = 2
    /\ RankedHits[1] # RankedHits[2]
    /\ Resolves(RankedHits[1])
    /\ Resolves(RankedHits[2])
    /\ output = Return(ImageInfo(RankedHits[1]))
    /\ HitLookups = 1

\* The first hit has no image info, the second has: the second is returned.
C19_WitnessSecond ==
    /\ SearchSent
    /\ Len(RankedHits) = 2
    /\ ~Resolves(RankedHits[1])
    /\ output = Return(ImageInfo(RankedHits[2]))
    /\ HitLookups = 2


(***************************************************************************)
(* Claim C20                                                               *)
(***************************************************************************)
\* What resolve_image returns when its lookups all answer and it takes the
\* titles in this order: the info of the first of them that has one
RECURSIVE FirstInfo(_)
FirstInfo(titles) ==
    IF titles = <<>> THEN None
    ELSE IF ~Falsy(query_image_info(repo.info[Head(titles)]))
         THEN query_image_info(repo.info[Head(titles)])
         ELSE FirstInfo(Tail(titles))

HasWhitespace(latin_name) ==
    \E i \in 1..Len(latin_name) : IsSpace(latin_name[i])

\* C20: for a Latin name with whitespace, what resolve_image has returned is
\* what it returns from the same repository whichever order the set of the
\* two candidate titles is iterated in.
C20_SameImageWhateverOrder ==
    (pc = "done" /\ HasWhitespace(input)) =>
        \A candidates \in build_candidate_titles(input) :
            FirstInfo(candidates \o search_commons(repo.search)) = output.value


(***************************************************************************)
(* Claim C21                                                               *)
(***************************************************************************)
\* The Latin name an entity carries, None without one
NameOf(entity) ==
    IF "P225" \in DOMAIN entity.claims
    THEN entity.claims.P225[1].mainsnak.datavalue.value
    ELSE None

\* Where the upward path from qid comes to a stop within `fuel` nodes: at
\* the nearest node of the rank ("rank"), or before one at a node that is
\* not of the rank and has no parent ("end"), each with its position on the
\* path; "none" when neither is met, or a node on the way is not served.
RECURSIVE PathStop(_, _, _)
PathStop(qid, rank_qid, fuel) ==
    IF fuel = 0 \/ Served(qid) = <<>>
    THEN [kind |-> "none", at |-> qid, depth |-> 0]
    ELSE IF HasRank(Served(qid)[1], rank_qid)
    THEN [kind |-> "rank", at |-> qid, depth |-> 1]
    ELSE IF ~HasParent(Served(qid)[1])
    THEN [kind |-> "end", at |-> qid, depth |-> 1]
    ELSE LET rest == PathStop(ParentOf(Served(qid)[1]), rank_qid, fuel - 1)
         IN  IF rest.kind = "none" THEN rest
             ELSE [rest EXCEPT !.depth = @ + 1]

\* What the claim says of a walk whose path stops as `stop` says: no fetch
\* beyond the node of the stop, and on return the name of the node of the
\* rank, or None at the node without parent.
WalkAgrees(stop) ==
    /\ stop.kind # "none" => Len(calls) <= stop.depth
    /\ (pc = "done" /\ stop.kind = "rank") =>
          /\ output = Return(NameOf(Served(stop.at)[1]))
          /\ Len(calls) = stop.depth
    /\ (pc = "done" /\ stop.kind = "end") =>
          /\ output = Return(None)
          /\ Len(calls) = stop.depth

\* C21 as stated: walk_up_to_rank returns the Latin name of the nearest node
\* of the target rank on the upward path, however far up it is, and returns
\* None without a further fetch at a node that is not of the rank and has no
\* parent.
C21_NearestOfRank_AsClaimed ==
    WalkAgrees(PathStop(input, walker.target,
                        Cardinality(DOMAIN wikidata.entities)))

\* C21, amended: the same, for a node of the target rank, or a node without
\* parent, among the first 10 nodes of the path.
C21_NearestOfRankWithinTen ==
    WalkAgrees(PathStop(input, walker.target, 10))

\* The tenth node of the path is the nearest of the target rank: its name
\* is returned after ten fetches.
C21_Witness ==
    /\ pc = "done"
    /\ PathStop(input, walker.target, 10).kind = "rank"
    /\ PathStop(input, walker.target, 10).depth = 10
    /\ output = Return(TaxonName(10))
    /\ Len(calls) = 10

\* The third node is not of the target rank and has no parent: None after
\* three fetches.
C21_WitnessEnd ==
    /\ pc = "done"
    /\ PathStop(input, walker.target, 10).kind = "end"
    /\ PathStop(input, walker.target, 10).depth = 3
    /\ output = Return(None)
    /\ Len(calls) = 3

\* The node of the target rank carries no name: None is returned for it.
C21_WitnessNoName ==
    /\ pc = "done"
    /\ PathStop(input, walker.target, 10).kind = "rank"
    /\ PathStop(input, walker.target, 10).depth = 2
    /\ output = Return(None)

=============================================================================
